---------------------------- MODULE Spec2Model ----------------------------
(***************************************************************************)
(* Referencime MCP server (bin/start.js).  The file holds two server       *)
(* variants, v2.0.0 (5 tools) and v1.1.3 (7 tools).  Each variant is a     *)
(* process that either prints its usage text or checks the API key,        *)
(* attaches a stdio transport and then serves list-tools and call-tool     *)
(* requests.  A call-tool request is validated with a zod schema, sent to  *)
(* the WordPress backend with one fetch, and its JSON answer is rendered   *)
(* into a text report; every exception is turned into an error report.     *)
(***************************************************************************)
EXTENDS Integers, Sequences, FiniteSets, TLC

VARIABLES
  variant,   \* which server of bin/start.js runs: "2.0.0" or "1.1.3"
  argv,      \* process.argv.slice(2)
  envKey,    \* process.env.REFERENCIME_API_KEY (JUndef when unset)
  proc,      \* position of the process: boot, runServer, connecting, serving, exit0, exit1
  output,    \* what the process wrote to stdout and stderr at start-up
  listed,    \* answer to the last list-tools request (tool names, in order)
  calls      \* one record per call-tool request being handled

vars == <<variant, argv, envKey, proc, output, listed, calls>>

-----------------------------------------------------------------------------
(* JSON / JavaScript values *)

JUndef == [t |-> "undefined"]
JNull == [t |-> "null"]
JNum(n) == [t |-> "number", n |-> n]
JStr(s) == [t |-> "string", s |-> s]
JBool(b) == [t |-> "boolean", b |-> b]
JArr(a) == [t |-> "array", a |-> a]
JObj(o) == [t |-> "object", o |-> o]

EmptyObj == JObj(<<>>)

\* obj[f] in JavaScript, for obj an object: undefined when the key is absent
Prop(obj, f) == IF f \in DOMAIN obj.o THEN obj.o[f] ELSE JUndef

\* obj with key f set to v
WithProp(obj, f, v) ==
  JObj([g \in (DOMAIN obj.o) \cup {f} |-> IF g = f THEN v ELSE obj.o[g]])

\* obj without key f
WithoutProp(obj, f) == JObj([g \in (DOMAIN obj.o) \ {f} |-> obj.o[g]])

\* JavaScript truthiness of a value
Truthy(v) ==
  CASE v.t = "undefined" -> FALSE
    [] v.t = "null" -> FALSE
    [] v.t = "boolean" -> v.b
    [] v.t = "number" -> v.n # 0
    [] v.t = "string" -> v.s # ""
    [] OTHER -> TRUE

-----------------------------------------------------------------------------
(* zod schemas *)

Req(n, ty) ==
  [name |-> n, type |-> ty, optional |-> FALSE, hasDefault |-> FALSE, def |-> JUndef]
Opt(n, ty) ==
  [name |-> n, type |-> ty, optional |-> TRUE, hasDefault |-> FALSE, def |-> JUndef]
OptDefault(n, ty, d) ==
  [name |-> n, type |-> ty, optional |-> TRUE, hasDefault |-> TRUE, def |-> d]

\* v2.0.0
ListWebsitesByUserArgsSchema == <<>>

ListCategoriesByWebsiteArgsSchema == <<Req("website_id", "number")>>

ListKeywordsByWebsiteArgsSchema ==
  << Req("website_id", "number"),
     OptDefault("include_metrics", "boolean", JBool(FALSE)) >>

ListKeywordsByCategoriesByWebsiteArgsSchema ==
  << Req("website_id", "number"),
     OptDefault("include_performance", "boolean", JBool(TRUE)),
     OptDefault("days", "number", JNum(30)) >>

\* both variants declare the same WebsiteSummaryArgsSchema
WebsiteSummaryArgsSchema ==
  << Req("website_id", "number"),
     OptDefault("period", "string", JStr("30days")),
     Opt("start_date", "string"),
     Opt("end_date", "string"),
     Opt("compare_start_date", "string"),
     Opt("compare_end_date", "string") >>

\* v1.1.3
AnalyzeKeywordArgsSchema ==
  << Req("keyword", "string"), Req("website_id", "number") >>

PositionEvolutionArgsSchema ==
  << Req("keyword", "string"),
     Req("website_id", "number"),
     OptDefault("period", "string", JStr("30days")) >>

CompareKeywordsArgsSchema ==
  << Req("keywords", "array"), Req("website_id", "number") >>

RankingChangesArgsSchema ==
  << Req("website_id", "number"),
     OptDefault("days", "number", JNum(7)),
     OptDefault("threshold", "number", JNum(3)),
     Opt("start_date", "string"),
     Opt("end_date", "string") >>

ListUserWebsitesArgsSchema == <<>>

GetKeywordsByCategoriesArgsSchema ==
  << Req("website_id", "number"),
     OptDefault("include_performance", "boolean", JBool(TRUE)),
     OptDefault("days", "number", JNum(30)) >>

-----------------------------------------------------------------------------
(* zod: safeParse of a z.object schema; JSON.stringify of the parsed data *)

\* zod's getParsedType
ParsedType(v) == v.t

\* the element-wise check of z.array(z.string()): one issue per bad element
RECURSIVE ElementIssues(_, _, _)
ElementIssues(field, a, i) ==
  IF i > Len(a) THEN <<>>
  ELSE (IF a[i].t = "string" THEN <<>>
        ELSE << <<"invalid_type", "string", ParsedType(a[i]), field, ToString(i - 1),
                  IF a[i].t = "undefined" THEN "Required" ELSE "Expected" >> >>)
       \o ElementIssues(field, a, i + 1)

\* z.coerce.number() in place of z.number(): a string is cast to a number
TypeIssuesCoerced(field, ty, v) ==
  IF ty = "array" /\ v.t = "array" THEN ElementIssues(field, v.a, 1)
  ELSE IF ty # "array" /\ v.t = ty THEN <<>>
  ELSE IF ty = "number" /\ v.t = "string" THEN <<>>
  ELSE << <<"invalid_type", ty, ParsedType(v), field,
            IF v.t = "undefined" THEN "Required" ELSE "Expected" >> >>

\* the issues of z.number() / z.string() / z.boolean() / z.array(z.string()) on v:
\* the type must match as it is, no value is cast
TypeIssues(field, ty, v) ==
  IF ty = "array" /\ v.t = "array" THEN ElementIssues(field, v.a, 1)
  ELSE IF ty # "array" /\ v.t = ty THEN <<>>
  ELSE << <<"invalid_type", ty, ParsedType(v), field,
            IF v.t = "undefined" THEN "Required" ELSE "Expected" >> >>

\* .optional() without .default(...): an omitted key stays undefined
ParseFieldWithoutDefault(spec, v) ==
  IF v.t = "undefined" /\ spec.optional THEN [issues |-> <<>>, value |-> JUndef]
  ELSE [issues |-> TypeIssues(spec.name, spec.type, v), value |-> v]

\* ZodDefault(ZodOptional(T)) / ZodOptional(T) / T on the value of one key
ParseField(spec, v) ==
  IF v.t = "undefined" /\ spec.hasDefault THEN [issues |-> <<>>, value |-> spec.def]
  ELSE IF v.t = "undefined" /\ spec.optional THEN [issues |-> <<>>, value |-> JUndef]
  ELSE [issues |-> TypeIssues(spec.name, spec.type, v), value |-> v]

RECURSIVE ObjectIssues(_, _, _)
ObjectIssues(schema, args, i) ==
  IF i > Len(schema) THEN <<>>
  ELSE ParseField(schema[i], Prop(args, schema[i].name)).issues
       \o ObjectIssues(schema, args, i + 1)

\* the keys of the parsed object: a shape key is set when it is in the input or
\* its parsed value is defined; keys outside the shape are stripped
ParsedKeys(schema, args) ==
  { schema[i].name : i \in { j \in DOMAIN schema :
        \/ schema[j].name \in DOMAIN args.o
        \/ ParseField(schema[j], Prop(args, schema[j].name)).value.t # "undefined" } }

SpecOf(schema, f) == schema[CHOOSE i \in DOMAIN schema : schema[i].name = f]

\* z.object(...).passthrough(): the keys outside the shape are kept
ParsedDataPassthrough(schema, args) ==
  JObj([f \in ParsedKeys(schema, args) \cup DOMAIN args.o |->
          IF \E i \in DOMAIN schema : schema[i].name = f
            THEN ParseField(SpecOf(schema, f), Prop(args, f)).value
            ELSE args.o[f]])

\* the object safeParse returns as parsed.data
ParsedData(schema, args) ==
  JObj([f \in ParsedKeys(schema, args) |->
          ParseField(SpecOf(schema, f), Prop(args, f)).value])

\* schema.safeParse(args): args is undefined when the request carries no arguments
SafeParse(schema, args) ==
  IF args.t # "object"
    THEN [success |-> FALSE, data |-> JUndef,
          issues |-> << <<"invalid_type", "object", ParsedType(args),
                          IF args.t = "undefined" THEN "Required" ELSE "Expected" >> >>]
  ELSE LET iss == ObjectIssues(schema, args, 1) IN
       IF iss = <<>>
         THEN [success |-> TRUE, data |-> ParsedData(schema, args), issues |-> <<>>]
         ELSE [success |-> FALSE, data |-> JUndef, issues |-> iss]

\* parsed.error.message: the issues, serialised one after the other
RECURSIVE Flatten(_)
Flatten(ss) == IF ss = <<>> THEN <<>> ELSE Head(ss) \o Flatten(Tail(ss))

\* JSON.stringify of an array element: undefined becomes null
StringifyElement(v) == IF v.t = "undefined" THEN JNull ELSE v

\* JSON.stringify(requestData), as the JSON value the backend reads: keys whose
\* value is undefined are left out
Stringify(v) ==
  IF v.t = "object"
    THEN JObj([f \in { g \in DOMAIN v.o : v.o[g].t # "undefined" } |->
                 IF v.o[f].t = "array"
                   THEN JArr([i \in DOMAIN v.o[f].a |-> StringifyElement(v.o[f].a[i])])
                   ELSE v.o[f]])
  ELSE v

-----------------------------------------------------------------------------
(* The three tool tables of each variant *)

\* the names the ListTools handler advertises, in order
ListToolsNames(v) ==
  IF v = "2.0.0"
    THEN << "list_websites_by_user",
            "list_categories_by_website",
            "list_keywords_by_website",
            "list_keywords_by_categories_by_website",
            "get_website_performance_summary" >>
    ELSE << "analyze_keyword_performance",
            "get_position_evolution",
            "compare_keywords_performance",
            "get_website_performance_summary",
            "detect_ranking_changes",
            "list_user_websites",
            "get_keywords_by_categories" >>

\* the cases of the CallTool handler's switch: the case label, the schema the case
\* parses with and the tool name its "Arguments invalides pour" message spells out
DispatchCases(v) ==
  IF v = "2.0.0"
    THEN << [case |-> "list_websites_by_user", schema |-> ListWebsitesByUserArgsSchema,
             label |-> "list_websites_by_user"],
            [case |-> "list_categories_by_website", schema |-> ListCategoriesByWebsiteArgsSchema,
             label |-> "list_categories_by_website"],
            [case |-> "list_keywords_by_website", schema |-> ListKeywordsByWebsiteArgsSchema,
             label |-> "list_keywords_by_website"],
            [case |-> "list_keywords_by_categories_by_website",
             schema |-> ListKeywordsByCategoriesByWebsiteArgsSchema,
             label |-> "list_keywords_by_categories_by_website"],
            [case |-> "get_website_performance_summary", schema |-> WebsiteSummaryArgsSchema,
             label |-> "get_website_performance_summary"] >>
    ELSE << [case |-> "analyze_keyword_performance", schema |-> AnalyzeKeywordArgsSchema,
             label |-> "analyze_keyword_performance"],
            [case |-> "get_position_evolution", schema |-> PositionEvolutionArgsSchema,
             label |-> "get_position_evolution"],
            [case |-> "compare_keywords_performance", schema |-> CompareKeywordsArgsSchema,
             label |-> "compare_keywords_performance"],
            [case |-> "get_website_performance_summary", schema |-> WebsiteSummaryArgsSchema,
             label |-> "get_website_performance_summary"],
            [case |-> "detect_ranking_changes", schema |-> RankingChangesArgsSchema,
             label |-> "detect_ranking_changes"],
            [case |-> "list_user_websites", schema |-> ListUserWebsitesArgsSchema,
             label |-> "list_user_websites"],
            [case |-> "get_keywords_by_categories", schema |-> GetKeywordsByCategoriesArgsSchema,
             label |-> "get_keywords_by_categories"] >>

\* the cases of callReferencimeAPI's switch: tool name -> WordPress endpoint
EndpointCasesV2 ==
         << [case |-> "list_websites_by_user", endpoint |-> "/ai/list-websites-by-user"],
            [case |-> "list_categories_by_website", endpoint |-> "/ai/list-categories-by-website"],
            [case |-> "list_keywords_by_website", endpoint |-> "/ai/list-keywords-by-website"],
            [case |-> "list_keywords_by_categories_by_website",
             endpoint |-> "/ai/list-keywords-by-categories-by-website"],
            [case |-> "get_website_performance_summary",
             endpoint |-> "/ai/get-website-performance-summary"] >>

EndpointCasesV1 ==
         << [case |-> "analyze_keyword_performance", endpoint |-> "/ai/analyze-keyword-performance"],
            [case |-> "get_position_evolution", endpoint |-> "/ai/get-position-evolution"],
            [case |-> "compare_keywords_performance",
             endpoint |-> "/ai/compare-keywords-performance"],
            [case |-> "get_website_performance_summary",
             endpoint |-> "/ai/get-website-performance-summary"],
            [case |-> "detect_ranking_changes", endpoint |-> "/ai/detect-ranking-changes"],
            [case |-> "list_user_websites", endpoint |-> "/ai/list-user-websites"],
            [case |-> "get_keywords_by_categories", endpoint |-> "/ai/get-keywords-by-categories"] >>

\* the 2.0.0 server left with the switch of 1.1.3
EndpointCasesNotRefactored(v) == EndpointCasesV1

\* two cases of a switch assigning the same endpoint
EndpointCasesSharedPath(v) ==
  IF v = "2.0.0"
    THEN [EndpointCasesV2 EXCEPT ![3].endpoint = EndpointCasesV2[2].endpoint]
    ELSE [EndpointCasesV1 EXCEPT ![7].endpoint = EndpointCasesV1[6].endpoint]

\* the switch of the variant that runs
EndpointCases(v) == IF v = "2.0.0" THEN EndpointCasesV2 ELSE EndpointCasesV1

\* a switch statement: the index of the first case whose label is strictly equal
\* to the name, 0 for the default branch
SwitchCase(cases, name) ==
  IF \E i \in DOMAIN cases : cases[i].case = name
    THEN CHOOSE i \in DOMAIN cases :
           /\ cases[i].case = name
           /\ \A j \in DOMAIN cases : cases[j].case = name => i <= j
    ELSE 0

CaseNames(cases) == { cases[i].case : i \in DOMAIN cases }

\* the same backend reached without encryption
baseURLUnencrypted == "http://referencime.fr/wp-json/easy-links/v1"

baseURL == "https://referencime.fr/wp-json/easy-links/v1"

\* the host the README's architecture section names as the centralized server
ReadmeServer == "mcp.referencime.fr"

-----------------------------------------------------------------------------
(* JavaScript expressions the formatters use.  A report text is a sequence of   *)
(* string pieces: the literal parts of the template and the interpolated values. *)

NL == "\n"

Nullish(v) == v.t \in {"undefined", "null"}

\* v.f for a value v that is not nullish: undefined unless v is an object with key f
GetP(v, f) == IF v.t = "object" THEN Prop(v, f) ELSE JUndef

\* a property read that failed with a TypeError
JThrow == [t |-> "throw"]

\* v.p1.p2...pn: a TypeError as soon as a property of undefined or null is read
RECURSIVE Path(_, _)
Path(v, path) ==
  IF path = <<>> THEN v
  ELSE IF Nullish(v) \/ v.t = "throw" THEN JThrow
  ELSE Path(GetP(v, Head(path)), Tail(path))

Throws(v, path) == Path(v, path).t = "throw"

\* String(v), the conversion a template literal applies
RECURSIVE Str(_)
Str(v) ==
  CASE v.t = "undefined" -> "undefined"
    [] v.t = "null" -> "null"
    [] v.t = "boolean" -> IF v.b THEN "true" ELSE "false"
    [] v.t = "number" -> ToString(v.n)
    [] v.t = "string" -> v.s
    [] v.t = "array" ->
         IF v.a = <<>> THEN ""
         ELSE IF Len(v.a) = 1 THEN (IF Nullish(v.a[1]) THEN "" ELSE Str(v.a[1]))
         ELSE (IF Nullish(v.a[1]) THEN "" ELSE Str(v.a[1])) \o "," \o Str(JArr(Tail(v.a)))
    [] OTHER -> "[object Object]"

\* v.toLocaleString() for v not nullish (integers below 1000 carry no separator)
LocaleString(v) == Str(v)

\* n.toFixed(1) and n.toFixed(2) of an integer
ToFixed1(v) == ToString(v.n) \o ".0"
ToFixed2(v) == ToString(v.n) \o ".00"

\* new Date(v).toLocaleDateString('fr-FR') / toLocaleString('fr-FR')
LocaleDate(v) == "date(" \o Str(v) \o ")"

\* a || b
OrElse(a, b) == IF Truthy(a) THEN a ELSE b

\* v > 0 for the values a payload carries (numbers, booleans, null, undefined)
GtZero(v) ==
  \/ v.t = "number" /\ v.n > 0
  \/ v.t = "boolean" /\ v.b

\* lines.join(sep), the lines being sequences of pieces
RECURSIVE Join(_, _)
Join(lines, sep) ==
  IF lines = <<>> THEN <<>>
  ELSE IF Len(lines) = 1 THEN lines[1]
  ELSE lines[1] \o <<sep>> \o Join(Tail(lines), sep)

\* arr.map(f) fails unless arr is an array; the callbacks read properties of
\* each element, which fails on an undefined or null element
MapFails(arr) ==
  \/ arr.t # "array"
  \/ \E i \in DOMAIN arr.a : Nullish(arr.a[i])

\* arr.slice(0, n)
Slice(a, n) == SubSeq(a, 1, IF Len(a) < n THEN Len(a) ELSE n)

Ok(text) == [ok |-> TRUE, text |-> text]
TypeError == [ok |-> FALSE, text |-> <<"Cannot read properties of undefined">>]

-----------------------------------------------------------------------------
(* Formatters of v2.0.0: the code of each case after callReferencimeAPI returns *)

\* a formatter that marks every website carrying an is_favorite field and
\* counts the websites itself
FormatListWebsitesByUserCounting(result) ==
  IF Nullish(result) \/ MapFails(GetP(result, "websites")) THEN TypeError
  ELSE LET ws == GetP(result, "websites").a
           line(w) ==
             << "* **", Str(GetP(w, "domain")), "** (ID: ", Str(GetP(w, "id")), ")" >>
             \o (IF ~Nullish(GetP(w, "is_favorite")) THEN << " [fav]" >> ELSE <<>>)
             \o << " - Cree le ", LocaleDate(GetP(w, "created_date")) >>
           websitesList == Join([i \in DOMAIN ws |-> line(ws[i])], NL)
       IN Ok(<< "**VOS SITES WEB REFERENCIME**", NL, NL,
                "**Utilisateur ID :** ", Str(GetP(result, "user_id")), NL,
                "**Nombre de sites :** ", ToString(Len(ws)), NL, NL,
                "**Liste des sites :**", NL >>
             \o websitesList
             \o << NL, NL, "**Utilisation :** Utilisez l'ID du site dans les autres outils." >>)

\* case "list_websites_by_user"
FormatListWebsitesByUser(result) ==
  IF Nullish(result) \/ MapFails(GetP(result, "websites")) THEN TypeError
  ELSE LET ws == GetP(result, "websites").a
           line(w) ==
             << "* **", Str(GetP(w, "domain")), "** (ID: ", Str(GetP(w, "id")), ")" >>
             \o (IF Truthy(GetP(w, "is_favorite")) THEN << " [fav]" >> ELSE <<>>)
             \o << " - Cree le ", LocaleDate(GetP(w, "created_date")) >>
           websitesList == Join([i \in DOMAIN ws |-> line(ws[i])], NL)
       IN Ok(<< "**VOS SITES WEB REFERENCIME**", NL, NL,
                "**Utilisateur ID :** ", Str(GetP(result, "user_id")), NL,
                "**Nombre de sites :** ", Str(GetP(result, "websites_count")), NL, NL,
                "**Liste des sites :**", NL >>
             \o websitesList
             \o << NL, NL, "**Utilisation :** Utilisez l'ID du site dans les autres outils." >>)

\* case "list_categories_by_website"
FormatListCategoriesByWebsite(result) ==
  IF Nullish(result) \/ MapFails(GetP(result, "categories")) THEN TypeError
  ELSE LET cs == GetP(result, "categories").a
           line(c) == << "* **", Str(GetP(c, "name")), "** (",
                         Str(GetP(c, "keywords_count")), " mots-cles)" >>
           categoriesList == Join([i \in DOMAIN cs |-> line(cs[i])], NL)
       IN Ok(<< "**CATEGORIES DE MOTS-CLES - SITE #", Str(GetP(result, "website_id")), "**",
                NL, NL,
                "**Nombre de categories :** ", Str(GetP(result, "categories_count")), NL, NL,
                "**Liste des categories :**", NL >>
             \o categoriesList
             \o << NL, NL, "**Organisation :** Categorisez vos mots-cles par theme." >>)

\* the display cap of list_keywords_by_website: keywords.slice(0, 20)
KeywordsCap == 20

\* the keys every object inherits from Object.prototype: byCategory[key] is
\* truthy for them before anything is stored
ObjectPrototypeKeys ==
  { "constructor", "__proto__", "hasOwnProperty", "isPrototypeOf",
    "propertyIsEnumerable", "toLocaleString", "toString", "valueOf",
    "__defineGetter__", "__defineSetter__", "__lookupGetter__", "__lookupSetter__" }

\* k.category_name || 'Non categorise', as the property key it is used as
CatNameOf(k) == Str(OrElse(GetP(k, "category_name"), JStr("Non categorise")))

\* the property keys of byCategory in the order they were created
RECURSIVE InsertionOrder(_, _)
InsertionOrder(ks, seen) ==
  IF ks = <<>> THEN <<>>
  ELSE IF CatNameOf(Head(ks)) \in seen THEN InsertionOrder(Tail(ks), seen)
  ELSE << CatNameOf(Head(ks)) >> \o InsertionOrder(Tail(ks), seen \cup {CatNameOf(Head(ks))})

\* a key that is a canonical array index (checked for indices below 100)
IsIndexKey(key) == \E n \in 0..99 : ToString(n) = key
IndexOfKey(key) == CHOOSE n \in 0..99 : ToString(n) = key

RECURSIVE SortedIndexKeys(_)
SortedIndexKeys(keys) ==
  IF keys = {} THEN <<>>
  ELSE LET m == CHOOSE k \in keys : \A j \in keys : IndexOfKey(k) <= IndexOfKey(j)
       IN << m >> \o SortedIndexKeys(keys \ {m})

\* Object.entries(byCategory): index-like keys first, in ascending order, then
\* the other keys in the order they were created
EntriesOrder(ks) ==
  LET created == InsertionOrder(ks, {})
      NotIndex(k) == ~IsIndexKey(k)
  IN SortedIndexKeys({ created[i] : i \in { j \in DOMAIN created : IsIndexKey(created[j]) } })
     \o SelectSeq(created, NotIndex)

\* case "list_keywords_by_website"
FormatListKeywordsByWebsite(result) ==
  IF Nullish(result) \/ MapFails(GetP(result, "keywords")) THEN TypeError
  ELSE LET ks == GetP(result, "keywords").a IN
       IF \E i \in DOMAIN ks : CatNameOf(ks[i]) \in ObjectPrototypeKeys THEN TypeError
       ELSE
       LET group(cat) == LET InCat(k) == CatNameOf(k) = cat IN SelectSeq(ks, InCat)
           line(k) ==
             << "   * ", Str(GetP(k, "keyword")) >>
             \o (IF Truthy(GetP(result, "include_metrics")) /\ Truthy(GetP(k, "search_volume"))
                   THEN << " (Vol: ", LocaleString(GetP(k, "search_volume")), ")" >>
                   ELSE <<>>)
           entry(cat) ==
             LET keywords == group(cat)
                 shown == Slice(keywords, KeywordsCap)
                 keywordsText == Join([i \in DOMAIN shown |-> line(shown[i])], NL)
                 truncated ==
                   IF Len(keywords) > KeywordsCap
                     THEN << NL, "   ... et ", ToString(Len(keywords) - KeywordsCap),
                             " autres mots-cles" >>
                     ELSE <<>>
             IN << NL, "**", cat, "** (", ToString(Len(keywords)), " mots-cles):", NL >>
                \o keywordsText \o truncated
           order == EntriesOrder(ks)
           keywordsList == Join([i \in DOMAIN order |-> entry(order[i])], NL)
       IN Ok(<< "**MOTS-CLES - SITE #", Str(GetP(result, "website_id")), "**", NL, NL,
                "**Total mots-cles :** ", Str(GetP(result, "keywords_count")), NL,
                "**Volumes de recherche :** ",
                IF Truthy(GetP(result, "include_metrics")) THEN "Inclus" ELSE "Non inclus",
                NL >>
             \o keywordsList
             \o << NL, NL, "**Astuce :** Utilisez list_keywords_by_categories_by_website." >>)

\* the display cap of the keywords-by-categories tools: category.keywords.slice(0, 10)
CategoryCap == 10

\* s.toUpperCase()
UpperCase(s) == "upper(" \o s \o ")"

\* v > n for a number v; false for undefined and null
NumGt(v, n) == v.t = "number" /\ v.n > n

\* k.performance_metrics?.position
PositionOf(k) ==
  IF Nullish(GetP(k, "performance_metrics")) THEN JUndef
  ELSE GetP(GetP(k, "performance_metrics"), "position")

\* the scan confined to the keywords a category displays
RECURSIVE WithPositionDisplayed(_)
WithPositionDisplayed(cats) ==
  IF cats = <<>> THEN <<>>
  ELSE LET HasPosition(k) == GtZero(PositionOf(k))
       IN SelectSeq(Slice(GetP(Head(cats), "keywords").a, CategoryCap), HasPosition)
          \o WithPositionDisplayed(Tail(cats))

\* result.categories.flatMap(cat => cat.keywords.filter(k => k.performance_metrics?.position > 0))
RECURSIVE WithPosition(_)
WithPosition(cats) ==
  IF cats = <<>> THEN <<>>
  ELSE LET HasPosition(k) == GtZero(PositionOf(k))
       IN SelectSeq(GetP(Head(cats), "keywords").a, HasPosition) \o WithPosition(Tail(cats))

\* .reduce((sum, pos) => sum + pos, 0) over the positions
RECURSIVE SumPositions(_)
SumPositions(ks) ==
  IF ks = <<>> THEN 0 ELSE PositionOf(Head(ks)).n + SumPositions(Tail(ks))

\* (sum / count).toFixed(1), the quotient rounded to one decimal
AvgToFixed1(sum, count) ==
  LET tenths == (20 * sum + count) \div (2 * count)
  IN ToString(tenths \div 10) \o "." \o ToString(tenths % 10)

\* the flatMap over every category reads cat.keywords.filter and, for each
\* keyword, k.performance_metrics
PositionScanFails(cats) ==
  \E i \in DOMAIN cats : MapFails(GetP(cats[i], "keywords"))

\* one keyword line of the keywords-by-categories tools
CategoryKeywordLine(v, result, keyword) ==
  LET perf == GetP(keyword, "performance_metrics") IN
  << "   * **", Str(GetP(keyword, "keyword")), "**" >>
  \o (IF Truthy(GetP(result, "include_performance")) /\ Truthy(perf)
        THEN IF Truthy(GetP(perf, "has_data"))
               THEN << IF v = "2.0.0" THEN " | #" ELSE " | Pos: #",
                       Str(OrElse(GetP(perf, "position"), JStr("N/A"))),
                       " | ", Str(GetP(perf, "clicks")), " clics | ",
                       Str(GetP(perf, "impressions")), " impr" >>
                    \o (IF GtZero(GetP(perf, "ctr"))
                          THEN << " | CTR: ", ToFixed1(JNum(GetP(perf, "ctr").n * 100)), "%" >>
                          ELSE <<>>)
               ELSE << " | Pas de donnees GSC" >>
        ELSE <<>>)
  \o (IF GtZero(GetP(keyword, "search_volume"))
        THEN << " | Vol: ", LocaleString(GetP(keyword, "search_volume")) >>
        ELSE <<>>)

\* the header's category name: (category_name || 'Sans nom').toUpperCase() in
\* v2.0.0, category_name.toUpperCase() in v1.1.3
CategoryTitle(v, category) ==
  IF v = "2.0.0" THEN OrElse(GetP(category, "category_name"), JStr("Sans nom"))
  ELSE GetP(category, "category_name")

\* one category block of the keywords-by-categories tools
CategoryBlock(v, result, category) ==
  LET count == GetP(category, "keywords_count")
      categoryHeader ==
        << NL, "**", UpperCase(CategoryTitle(v, category).s), "** (", Str(count),
           " mots-cles)", NL, "-----", NL >>
  IN IF count.t = "number" /\ count.n = 0
       THEN categoryHeader
            \o << IF v = "2.0.0" THEN "   * Aucun mot-cle"
                  ELSE "   * Aucun mot-cle dans cette categorie", NL >>
       ELSE LET shown == Slice(GetP(category, "keywords").a, CategoryCap)
                keywordsText ==
                  Join([i \in DOMAIN shown |-> CategoryKeywordLine(v, result, shown[i])], NL)
                truncated ==
                  IF NumGt(count, CategoryCap)
                    THEN << NL, "   ... et ", ToString(count.n - CategoryCap),
                            IF v = "2.0.0" THEN " autres" ELSE " autres mots-cles" >>
                    ELSE <<>>
            IN categoryHeader \o keywordsText \o truncated \o << NL >>

\* the branch taken when result.has_gsc_data is falsy
KeywordsByCategoriesNoData(result) ==
  IF Nullish(GetP(result, "summary")) \/ MapFails(GetP(result, "categories")) THEN TypeError
  ELSE LET cs == GetP(result, "categories").a
           line(cat) == << "* **", Str(GetP(cat, "category_name")), "**: ",
                           Str(GetP(cat, "keywords_count")), " mots-cles" >>
       IN Ok(<< "**MOTS-CLES PAR CATEGORIES - SITE #", Str(GetP(result, "website_id")), "**",
                NL, NL,
                "**Donnees GSC non disponibles**", NL, NL,
                "**Periode :** ", Str(GetP(result, "period_days")), " jours", NL,
                "**Total mots-cles :** ", Str(Path(result, <<"summary", "total_keywords">>)), NL,
                "**Categories :** ", Str(Path(result, <<"summary", "total_categories">>)), NL, NL,
                "**Cause :** Pas de propriete Google Search Console associee.", NL, NL,
                "**Structure :**", NL >>
             \o Join([i \in DOMAIN cs |-> line(cs[i])], NL))

\* the code shared by case "list_keywords_by_categories_by_website" (v2.0.0) and
\* case "get_keywords_by_categories" (v1.1.3)
KeywordsByCategories(v, result) ==
  IF Nullish(result) THEN TypeError
  ELSE IF ~Truthy(GetP(result, "has_gsc_data")) THEN KeywordsByCategoriesNoData(result)
  ELSE IF MapFails(GetP(result, "categories")) THEN TypeError
  ELSE LET cs == GetP(result, "categories").a IN
       IF \/ \E i \in DOMAIN cs : CategoryTitle(v, cs[i]).t # "string"
          \/ PositionScanFails(cs)
          \/ Nullish(Path(result, <<"summary", "total_keywords">>))
          \/ Throws(result, <<"summary", "total_keywords">>)
         THEN TypeError
       ELSE LET categoriesText == Flatten([i \in DOMAIN cs |-> CategoryBlock(v, result, cs[i])])
                withPosition == WithPosition(cs)
                totalWithPosition == Len(withPosition)
            IN Ok(<< "**MOTS-CLES PAR CATEGORIES - SITE #", Str(GetP(result, "website_id")), "**",
                     NL, NL,
                     "**Periode :** ", Str(GetP(result, "period_days")), " jours", NL,
                     "**Metriques GSC :** ",
                     IF Truthy(GetP(result, "include_performance")) THEN "Incluses"
                     ELSE "Desactivees", NL, NL,
                     "**Resume :**", NL,
                     "* Total mots-cles : ",
                     LocaleString(Path(result, <<"summary", "total_keywords">>)), NL,
                     "* Categories : ", Str(Path(result, <<"summary", "total_categories">>)), NL,
                     "* Non categorises : ",
                     Str(Path(result, <<"summary", "uncategorized_keywords">>)), NL,
                     "* Avec position GSC : ", ToString(totalWithPosition), NL >>
                  \o (IF totalWithPosition > 0
                        THEN << "* Position moyenne : #",
                                AvgToFixed1(SumPositions(withPosition), totalWithPosition), NL >>
                        ELSE <<>>)
                  \o << NL >> \o categoriesText
                  \o << NL, "**MAJ :** ", LocaleDate(GetP(result, "last_updated")), NL, NL,
                        "**Astuce :** Identifiez vos thematiques SEO les plus performantes !" >>)

\* case "list_keywords_by_categories_by_website"
FormatListKeywordsByCategoriesByWebsite(result) == KeywordsByCategories("2.0.0", result)

\* v.length > 0
LengthGtZero(v) ==
  \/ v.t = "array" /\ Len(v.a) > 0
  \/ v.t = "string" /\ v.s # ""

\* (x * 100).toFixed(2): NaN when x is not a number
PercentFixed2(v) == IF v.t = "number" THEN ToFixed2(JNum(v.n * 100)) ELSE "NaN"

\* evol.toFixed(1) is reached when evolution_percent !== null
EvolutionFails(metric) ==
  GetP(metric, "evolution_percent").t \notin {"null", "number"}

\* ` (${sign}${evol.toFixed(1)}%)` when evolution_percent !== null
EvolutionText(metric) ==
  LET evol == GetP(metric, "evolution_percent") IN
  IF evol.t = "null" THEN <<>>
  ELSE << " (", IF evol.n >= 0 THEN "+" ELSE "", ToFixed1(evol), "%)" >>

\* the position_distribution lines both summary formatters end with
DistributionFails(result) ==
  Throws(result, <<"performance_changes", "position_distribution", "top3">>)

DistributionText(result) ==
  LET dist == Path(result, <<"performance_changes", "position_distribution">>) IN
  << "**Distribution des positions :**", NL,
     "* Top 3 : ", Str(GetP(dist, "top3")), " mots-cles", NL,
     "* Top 10 : ", Str(GetP(dist, "top10")), " mots-cles", NL,
     "* Top 20 : ", Str(GetP(dist, "top20")), " mots-cles", NL,
     "* Top 50 : ", Str(GetP(dist, "top50")), " mots-cles", NL,
     "* Top 100 : ", Str(GetP(dist, "top100")), " mots-cles", NL, NL >>

\* one category of the v2.0.0 summary's categoriesSection fails to render
SummaryCategoryFails(cat) ==
  \/ Nullish(cat)
  \/ Throws(cat, <<"metrics", "position", "current">>)
  \/ Throws(cat, <<"metrics", "clicks", "current">>)
  \/ EvolutionFails(Path(cat, <<"metrics", "clicks">>))
  \/ Throws(cat, <<"metrics", "impressions", "current">>)
  \/ Nullish(Path(cat, <<"metrics", "impressions", "current">>))
  \/ EvolutionFails(Path(cat, <<"metrics", "impressions">>))
  \/ /\ Truthy(GetP(cat, "top_keywords"))
     /\ LengthGtZero(GetP(cat, "top_keywords"))
     /\ MapFails(GetP(cat, "top_keywords"))

SummaryCategoryText(cat, index) ==
  LET position == Path(cat, <<"metrics", "position">>)
      clicks == Path(cat, <<"metrics", "clicks">>)
      impressions == Path(cat, <<"metrics", "impressions">>)
      evol == GetP(position, "evolution")
      top == GetP(cat, "top_keywords")
  IN << "**", ToString(index), ". ", Str(GetP(cat, "category_name")), "** (",
        Str(GetP(cat, "keywords_count")), " mots-cles)", NL,
        "   * Position moyenne : " >>
     \o (IF Truthy(GetP(position, "current"))
           THEN << "#", Str(GetP(position, "current")) >> ELSE << "N/A" >>)
     \o (IF Truthy(GetP(position, "compare")) /\ Truthy(evol)
           THEN << " (" >>
                \o (IF GtZero(evol) THEN << "up +", Str(evol) >>
                    ELSE IF evol.t = "number" /\ evol.n < 0 THEN << "down ", Str(evol) >>
                    ELSE << "=" >>)
                \o << " vs periode precedente)" >>
           ELSE <<>>)
     \o << NL, "   * Clics : ", Str(GetP(clicks, "current")) >>
     \o EvolutionText(clicks)
     \o << NL, "   * Impressions : ", LocaleString(GetP(impressions, "current")) >>
     \o EvolutionText(impressions)
     \o (IF Truthy(top) /\ LengthGtZero(top)
           THEN LET first == Slice(top.a, 3) IN
                << NL, "   Top mots-cles : " >>
                \o Join([i \in DOMAIN first |-> << Str(GetP(first[i], "keyword")) >>], ", ")
           ELSE <<>>)
     \o << NL, NL >>

\* formatMetric(metric) of the v2.0.0 summary
FormatMetricFails(metric) ==
  \/ metric.t = "null"
  \/ metric.t = "object" /\ GetP(metric, "current").t = "null"

formatMetric(metric) ==
  IF metric.t = "number" THEN << LocaleString(metric) >>
  ELSE IF metric.t = "object" /\ GetP(metric, "current").t # "undefined"
         THEN << LocaleString(GetP(metric, "current")) >>
              \o (IF Truthy(GetP(metric, "evolution_text"))
                    THEN << " (", Str(GetP(metric, "evolution_text")), ")" >> ELSE <<>>)
  ELSE << Str(metric) >>

\* `x ? (typeof x === 'object' ? ... x.current ... : ... x) : 'N/A'`
\* with `#${...}` for the average position and `${(... * 100).toFixed(2)}%` for
\* the average CTR
ShowMetric(percent, x) == IF percent THEN PercentFixed2(x) \o "%" ELSE "#" \o Str(x)

MetricOrNA(x, percent) ==
  IF ~Truthy(x) THEN << "N/A" >>
  ELSE IF x.t \in {"object", "array"}
         THEN << ShowMetric(percent, GetP(x, "current")) >>
              \o (IF Truthy(GetP(x, "evolution_text"))
                    THEN << " (", Str(GetP(x, "evolution_text")), ")" >> ELSE <<>>)
  ELSE << ShowMetric(percent, x) >>

\* case "get_website_performance_summary" of v2.0.0
FormatWebsiteSummaryV2(result) ==
  IF Nullish(result) THEN TypeError
  ELSE IF ~Truthy(GetP(result, "has_data"))
    THEN IF Nullish(GetP(result, "overall_metrics")) THEN TypeError
         ELSE LET period == GetP(result, "period")
                  days == IF Nullish(period) THEN JUndef ELSE GetP(period, "days")
              IN Ok(<< "**TABLEAU DE BORD SEO - SITE #", Str(GetP(result, "website_id")), "**",
                       NL, NL,
                       "**Aucune donnee disponible**", NL, NL,
                       "**Periode :** ",
                       Str(OrElse(GetP(result, "period_days"), OrElse(days, JStr("N/A")))),
                       " jours", NL,
                       "**Mots-cles :** ",
                       Str(Path(result, <<"overall_metrics", "total_keywords">>)), NL, NL,
                       "**Cause :** Pas de propriete GSC ou donnees non disponibles." >>)
  ELSE LET top == GetP(result, "top_performing_keywords")
           cats == GetP(result, "categories")
           hasCats == Truthy(cats) /\ LengthGtZero(cats)
           om == GetP(result, "overall_metrics")
           period == GetP(result, "period")
           compare == GetP(result, "compare_period")
       IN IF \/ ~Nullish(top) /\ MapFails(top)
             \/ ~Nullish(top) /\ \E i \in DOMAIN top.a : GetP(top.a[i], "position").t # "number"
             \/ hasCats /\ cats.t # "array"
             \/ hasCats /\ \E i \in DOMAIN cats.a : SummaryCategoryFails(cats.a[i])
             \/ Nullish(om)
             \/ FormatMetricFails(GetP(om, "total_clicks"))
             \/ FormatMetricFails(GetP(om, "total_impressions"))
             \/ DistributionFails(result)
            THEN TypeError
          ELSE LET line(k) == << "* ", Str(GetP(k, "keyword")), " (#",
                                 ToFixed1(GetP(k, "position")), ", ",
                                 Str(GetP(k, "clicks")), " clics)" >>
                   topKeywords ==
                     IF Nullish(top) \/ top.a = <<>> THEN << "Aucun" >>
                     ELSE Join([i \in DOMAIN top.a |-> line(top.a[i])], NL)
                   dateInfo ==
                     IF Truthy(period)
                       THEN << "**Periode :** du ", Str(GetP(period, "start_date")), " au ",
                               Str(GetP(period, "end_date")), " (",
                               Str(GetP(period, "days")), " jours)" >>
                            \o (IF Truthy(compare)
                                  THEN << NL, "**Comparaison :** du ",
                                          Str(GetP(compare, "start_date")), " au ",
                                          Str(GetP(compare, "end_date")) >>
                                  ELSE <<>>)
                       ELSE << "**Periode :** ", Str(GetP(result, "period_days")), " jours" >>
                   categoriesSection ==
                     IF hasCats
                       THEN << NL, NL, "**PERFORMANCES PAR CATEGORIE :**", NL, NL >>
                            \o Flatten([i \in DOMAIN cats.a |-> SummaryCategoryText(cats.a[i], i)])
                       ELSE <<>>
               IN Ok(<< "**TABLEAU DE BORD SEO - SITE #", Str(GetP(result, "website_id")), "**",
                        NL, NL >>
                     \o dateInfo
                     \o << NL, NL, "**Metriques globales :**", NL,
                           "* Mots-cles suivis : ", Str(GetP(om, "total_keywords")), NL,
                           "* Total clics : " >>
                     \o formatMetric(GetP(om, "total_clicks"))
                     \o << NL, "* Total impressions : " >>
                     \o formatMetric(GetP(om, "total_impressions"))
                     \o << NL, "* Position moyenne : " >>
                     \o MetricOrNA(GetP(om, "average_position"), FALSE)
                     \o << NL, "* CTR moyen : " >>
                     \o MetricOrNA(GetP(om, "average_ctr"), TRUE)
                     \o << NL, NL >>
                     \o DistributionText(result)
                     \o << "**Top performeurs :**", NL >>
                     \o topKeywords
                     \o categoriesSection)

-----------------------------------------------------------------------------
(* Formatters of v1.1.3 *)

\* case "analyze_keyword_performance"
FormatAnalyzeKeyword(data, result) ==
  IF \/ Nullish(result)
     \/ Nullish(GetP(result, "search_volume"))
     \/ Nullish(GetP(result, "estimated_traffic"))
    THEN TypeError
  ELSE Ok(<< "**ANALYSE COMPLETE DU MOT-CLE ", UpperCase(GetP(data, "keyword").s), "**", NL, NL,
             "**Metriques actuelles :**", NL,
             "* Position actuelle : #", Str(GetP(result, "current_position")), NL,
             "* Volume de recherche : ", LocaleString(GetP(result, "search_volume")),
             " recherches/mois", NL,
             "* Difficulte SEO : ", Str(GetP(result, "difficulty_score")), "/100", NL,
             "* Trafic estime : ", LocaleString(GetP(result, "estimated_traffic")),
             " visites/mois", NL,
             "* Niveau de concurrence : ", Str(GetP(result, "competition_level")), NL,
             "* Tendance : ", Str(GetP(result, "trend")), NL, NL,
             "**Derniere mise a jour :** ", LocaleDate(GetP(result, "last_updated")), NL,
             "**Site web ID :** ", Str(GetP(result, "website_id")) >>)

\* case "get_position_evolution"
FormatPositionEvolution(data, result) ==
  IF Nullish(result) \/ MapFails(GetP(result, "historical_positions")) THEN TypeError
  ELSE LET hs == GetP(result, "historical_positions").a
           line(p) == << Str(GetP(p, "date")), ": Position #", Str(GetP(p, "position")), " (",
                         Str(GetP(p, "clicks")), " clics, ",
                         Str(GetP(p, "impressions")), " impressions)" >>
           chartData == Join([i \in DOMAIN hs |-> line(hs[i])], NL)
       IN Ok(<< "**EVOLUTION DES POSITIONS - ", UpperCase(GetP(data, "keyword").s), "**", NL, NL,
                "**Periode analysee :** ", Str(GetP(result, "period")), NL,
                "**Statistiques :**", NL,
                "* Meilleure position : #", Str(GetP(result, "best_position")), NL,
                "* Position moyenne : #", Str(GetP(result, "average_position")), NL,
                "* Evolution recente : ",
                IF GtZero(GetP(result, "position_change")) THEN "+" ELSE "",
                Str(GetP(result, "position_change")), " positions", NL, NL,
                "**Historique detaille :**", NL >>
             \o chartData
             \o << NL, NL, "**Site web ID :** ", Str(GetP(result, "website_id")) >>)

\* case "compare_keywords_performance"
FormatCompareKeywords(result) ==
  IF Nullish(result) \/ MapFails(GetP(result, "keywords_analysis")) THEN TypeError
  ELSE LET ka == GetP(result, "keywords_analysis").a
           recs == GetP(result, "recommendations")
       IN IF \/ \E i \in DOMAIN ka : Nullish(GetP(ka[i], "search_volume"))
             \/ recs.t # "array"
            THEN TypeError
          ELSE LET line(k) ==
                     << "* **", Str(GetP(k, "keyword")), "**: Position #",
                        Str(GetP(k, "position")),
                        " | Volume: ", LocaleString(GetP(k, "search_volume")),
                        " | Trafic: ", Str(GetP(k, "estimated_traffic")),
                        " | Tendance: ", Str(GetP(k, "trend_direction")), " (",
                        IF GtZero(GetP(k, "monthly_change")) THEN "+" ELSE "",
                        Str(GetP(k, "monthly_change")), ")" >>
                   comparison == Join([i \in DOMAIN ka |-> line(ka[i])], NL)
               IN Ok(<< "**COMPARAISON DE ", Str(GetP(result, "total_analyzed")),
                        " MOTS-CLES**", NL, NL,
                        "**Analyse comparative :**", NL >>
                     \o comparison
                     \o << NL, NL, "**Meilleur performer :** ",
                           Str(GetP(result, "best_performer")), NL, NL,
                           "**Recommandations :**", NL >>
                     \o Join([i \in DOMAIN recs.a |-> << "* ", Str(recs.a[i]) >>], NL)
                     \o << NL, NL,
                           "**Date d'analyse :** ", LocaleDate(GetP(result, "comparison_date")), NL,
                           "**Site web ID :** ", Str(GetP(result, "website_id")) >>)

\* case "get_website_performance_summary" of v1.1.3
FormatWebsiteSummaryV1(data, result) ==
  IF Nullish(result) THEN TypeError
  ELSE IF ~Truthy(GetP(result, "has_data"))
    THEN IF Nullish(GetP(result, "overall_metrics")) THEN TypeError
         ELSE Ok(<< "**TABLEAU DE BORD SEO - SITE #", Str(GetP(result, "website_id")), "**",
                    NL, NL,
                    "**Aucune donnee disponible**", NL, NL,
                    "**Periode analysee :** ", Str(GetP(result, "period_days")), " jours", NL,
                    "**Mots-cles dans la base :** ",
                    Str(Path(result, <<"overall_metrics", "total_keywords">>)), NL, NL,
                    "**Cause possible :** Pas de propriete Google Search Console associee." >>)
  ELSE LET top == GetP(result, "top_performing_keywords")
           om == GetP(result, "overall_metrics")
       IN IF \/ ~Nullish(top) /\ MapFails(top)
             \/ Nullish(om)
             \/ Nullish(GetP(om, "total_keywords"))
             \/ Nullish(GetP(om, "total_clicks"))
             \/ Nullish(GetP(om, "total_impressions"))
             \/ DistributionFails(result)
            THEN TypeError
          ELSE LET line(k) == << "* ", Str(GetP(k, "keyword")), " (#",
                                 Str(GetP(k, "position")), ", ",
                                 Str(GetP(k, "clicks")), " clics)" >>
                   topKeywords ==
                     IF Nullish(top) \/ top.a = <<>> THEN << "Aucun mot-cle avec des clics" >>
                     ELSE Join([i \in DOMAIN top.a |-> line(top.a[i])], NL)
                   dateInfo ==
                     IF Truthy(GetP(data, "start_date")) /\ Truthy(GetP(data, "end_date"))
                       THEN << "**Periode analysee :** du ", Str(GetP(data, "start_date")),
                               " au ", Str(GetP(data, "end_date")), " (",
                               Str(GetP(result, "period_days")), " jours)" >>
                       ELSE << "**Periode analysee :** ", Str(GetP(result, "period_days")),
                               " jours" >>
               IN Ok(<< "**TABLEAU DE BORD SEO - SITE #", Str(GetP(result, "website_id")), "**",
                        NL, NL >>
                     \o dateInfo
                     \o << NL, NL, "**Metriques globales :**", NL,
                           "* Mots-cles suivis : ", LocaleString(GetP(om, "total_keywords")), NL,
                           "* Total des clics : ", LocaleString(GetP(om, "total_clicks")), NL,
                           "* Total des impressions : ",
                           LocaleString(GetP(om, "total_impressions")), NL,
                           "* Position moyenne : ",
                           IF Truthy(GetP(om, "average_position"))
                             THEN "#" \o Str(GetP(om, "average_position"))
                             ELSE "Non disponible", NL,
                           "* CTR moyen : ",
                           IF Truthy(GetP(om, "average_ctr"))
                             THEN PercentFixed2(GetP(om, "average_ctr")) \o "%"
                             ELSE "Non disponible", NL, NL >>
                     \o DistributionText(result)
                     \o << "**Mots-cles les plus performants :**", NL >>
                     \o topKeywords)

\* Math.abs(x)
MathAbs(v) ==
  IF v.t = "number" THEN ToString(IF v.n < 0 THEN -v.n ELSE v.n) ELSE "NaN"

\* one entry of significant_changes
RankingChangeLine(c) ==
  LET type == GetP(c, "change_type")
      Is(name) == type.t = "string" /\ type.s = name
      changeText ==
        IF Is("improvement")
          THEN << "up **", Str(GetP(c, "keyword")), "**: #", Str(GetP(c, "old_position")),
                  " -> #", Str(GetP(c, "new_position")), " (", MathAbs(GetP(c, "change")),
                  " positions vers le haut)" >>
        ELSE IF Is("drop")
          THEN << "down **", Str(GetP(c, "keyword")), "**: #", Str(GetP(c, "old_position")),
                  " -> #", Str(GetP(c, "new_position")), " (+", Str(GetP(c, "change")),
                  " positions vers le bas)" >>
        ELSE IF Is("new_entry")
          THEN << "new **", Str(GetP(c, "keyword")),
                  "**: Nouveau classement a la position #", Str(GetP(c, "new_position")) >>
        ELSE IF Is("disappeared")
          THEN << "gone **", Str(GetP(c, "keyword")),
                  "**: A disparu du classement (etait a la position #",
                  Str(GetP(c, "old_position")), ")" >>
        ELSE <<>>
      withTraffic ==
        changeText
        \o (IF GtZero(GetP(c, "clicks")) \/ GtZero(GetP(c, "impressions"))
              THEN << " | ", Str(GetP(c, "clicks")), " clics, ",
                      Str(GetP(c, "impressions")), " impressions" >>
              ELSE <<>>)
      significance == GetP(c, "significance")
  IN IF significance.t = "string" /\ significance.s = "major"
       THEN << "[alert] " >> \o withTraffic \o << " **[CHANGEMENT MAJEUR]**" >>
       ELSE withTraffic

\* case "detect_ranking_changes"
FormatRankingChanges(result) ==
  IF Nullish(result) THEN TypeError
  ELSE IF ~Truthy(GetP(result, "has_data"))
    THEN Ok(<< "**DETECTION DE CHANGEMENTS SIGNIFICATIFS**", NL, NL,
               "**Aucune donnee disponible**", NL, NL,
               "**Site web ID :** ", Str(GetP(result, "website_id")), NL,
               "**Periode :** ", Str(GetP(result, "period_days")), " jours", NL,
               "**Seuil :** +-", Str(GetP(result, "threshold")), " positions", NL, NL,
               "**Cause possible :** Pas de propriete Google Search Console associee." >>)
  ELSE IF MapFails(GetP(result, "significant_changes")) \/ Nullish(GetP(result, "summary"))
    THEN TypeError
  ELSE LET sc == GetP(result, "significant_changes").a
           summary == GetP(result, "summary")
           changes == Join([i \in DOMAIN sc |-> RankingChangeLine(sc[i])], NL)
       IN Ok(<< "**DETECTION DE CHANGEMENTS SIGNIFICATIFS**", NL, NL,
                "**Site web ID :** ", Str(GetP(result, "website_id")), NL,
                "**Periode analysee :** ", Str(GetP(result, "period_days")), " jours", NL,
                "**Seuil de detection :** +-", Str(GetP(result, "threshold")), " positions",
                NL, NL,
                "**Resume :**", NL,
                "* Total changements detectes : ", Str(GetP(summary, "changes_detected")), NL,
                "* Ameliorations : ", Str(GetP(summary, "improvements")), NL,
                "* Chutes : ", Str(GetP(summary, "drops")), NL,
                "* Changements majeurs : ", Str(GetP(summary, "major_changes")), NL,
                "* Nouvelles entrees : ", Str(GetP(summary, "new_entries")), NL,
                "* Disparitions : ", Str(GetP(summary, "disappeared")), NL, NL >>
             \o (IF changes # <<>>
                   THEN << "**Changements detectes :**", NL >> \o changes
                   ELSE << "**Aucun changement significatif detecte**" >>))

\* case "list_user_websites"
FormatListUserWebsites(result) ==
  IF Nullish(result) \/ MapFails(GetP(result, "websites")) THEN TypeError
  ELSE LET ws == GetP(result, "websites").a
           line(w) ==
             << "* **", Str(GetP(w, "domain")), "** (ID: ", Str(GetP(w, "id")), ")" >>
             \o (IF Truthy(GetP(w, "is_favorite")) THEN << " [fav]" >> ELSE <<>>)
           websitesList == Join([i \in DOMAIN ws |-> line(ws[i])], NL)
       IN Ok(<< "**VOS SITES WEB REFERENCIME**", NL, NL,
                "**Utilisateur ID :** ", Str(GetP(result, "user_id")), NL,
                "**Nombre de sites :** ", Str(GetP(result, "websites_count")), NL, NL,
                "**Liste des sites :**", NL >>
             \o websitesList
             \o << NL, NL, "**Utilisation :** Utilisez l'ID du site dans les autres outils." >>)

\* case "get_keywords_by_categories"
FormatGetKeywordsByCategories(result) == KeywordsByCategories("1.1.3", result)

-----------------------------------------------------------------------------
(* The CallTool handler and callReferencimeAPI.  The handler runs in three      *)
(* stretches: up to `await fetch`, from the response to `await response.json()`, *)
(* and from the parsed body to its return.                                       *)

NoReport == [isError |-> FALSE, content |-> <<>>]

\* new Error(message), tagged with the place that throws it
Err(fault, message) == [fault |-> fault, message |-> message]

NoError == Err("none", <<>>)

\* fetch has not settled yet / fetch rejected / the Response it resolved to
NoResponse == [kind |-> "none", status |-> 0, statusText |-> ""]
Rejected == [kind |-> "rejected", status |-> 0, statusText |-> ""]
Response(status, statusText) ==
  [kind |-> "response", status |-> status, statusText |-> statusText]

\* response.json() rejected
Unparseable == [t |-> "unparseable"]

\* a request slot no call occupies.  A call's record holds the handler's locals:
\* name and args of the request, parsed.data, the requests it sent with fetch,
\* the response and the parsed body it got, the error it caught, whether it
\* called response.json() and entered the formatter, the lines it wrote to stderr,
\* and the report it returns
Idle ==
  [pc |-> "idle", name |-> "", args |-> JUndef, data |-> JUndef, requests |-> <<>>,
   response |-> NoResponse, body |-> JUndef, bodyRead |-> FALSE, formatted |-> FALSE,
   error |-> NoError, escaped |-> FALSE, log |-> <<>>, report |-> NoReport]

\* a catch block that returns the message without isError: true
CatchBlockUnflagged(c, error) ==
  [c EXCEPT !.pc = "done",
            !.error = error,
            !.report = [isError |-> FALSE,
                        content |-> << [type |-> "text",
                                        text |-> << "**Erreur**: " >> \o error.message] >>]]

\* a catch block that reports a fixed text in place of the error message
CatchBlockFixedText(c, error) ==
  [c EXCEPT !.pc = "done",
            !.error = error,
            !.report = [isError |-> TRUE,
                        content |-> << [type |-> "text",
                                        text |-> << "**Erreur**: ", "Une erreur est survenue" >>] >>]]

\* the handler's catch block: the error message becomes an isError report
CatchBlock(c, error) ==
  [c EXCEPT !.pc = "done",
            !.error = error,
            !.log = Append(@, << "[Referencime MCP] Erreur: " >> \o error.message),
            !.report = [isError |-> TRUE,
                        content |-> << [type |-> "text",
                                        text |-> << "**Erreur**: " >> \o error.message] >>]]

\* the catch block of callReferencimeAPI logs the error and throws it again, into
\* the handler's catch block
GatewayCatch(c, error) ==
  CatchBlock([c EXCEPT !.log = Append(@, << "[Referencime MCP] Erreur API ", c.name, ":" >>
                                         \o error.message)],
             error)

\* a case's return statement: one text item, no isError key
ReturnText(c, text) ==
  [c EXCEPT !.pc = "done",
            !.report = [isError |-> FALSE,
                        content |-> << [type |-> "text", text |-> text] >>]]

\* a getApiKey that returns whatever the environment holds, set or not
getApiKeyUnchecked(key) ==
  Err("none", << IF key.t = "string" THEN key.s ELSE "undefined" >>)

\* getApiKey(): the key, or the error thrown when it is unset or empty
getApiKey(key) ==
  IF ~Truthy(key)
    THEN Err("MissingCredential", << "REFERENCIME_API_KEY non configure." >>)
    ELSE Err("none", << key.s >>)

\* callReferencimeAPI(toolName, args) up to `await fetch(...)`
callReferencimeAPI(v, key, c) ==
  IF getApiKey(key).fault # "none" THEN CatchBlock(c, getApiKey(key))
  ELSE LET e == SwitchCase(EndpointCases(v), c.name) IN
       IF e = 0 THEN GatewayCatch(c, Err("UnknownToolGateway", << "Outil inconnu: ", c.name >>))
       ELSE [c EXCEPT !.pc = "fetch",
                      !.requests =
                        Append(@, [method |-> "POST",
                                   url |-> baseURL \o EndpointCases(v)[e].endpoint,
                                   authorization |-> << "Bearer " >> \o getApiKey(key).message,
                                   contentType |-> "application/json",
                                   body |-> Stringify(c.data)])]

\* every case spelling out the name of the first one
InvalidArgumentsFirstCase(label, issues) ==
  Err("Validation",
      << "Arguments invalides pour ", "analyze_keyword_performance", ": " >> \o Flatten(issues))

\* the error a case throws when safeParse fails: the tool name the case spells
\* out, then parsed.error.message
InvalidArguments(label, issues) ==
  Err("Validation", << "Arguments invalides pour ", label, ": " >> \o Flatten(issues))

\* the handler from its entry to its first await
HandleCall(v, key, name, args) ==
  LET c == [Idle EXCEPT !.name = name, !.args = args]
      k == SwitchCase(DispatchCases(v), name)
  IN IF k = 0 THEN CatchBlock(c, Err("UnknownTool", << "Outil inconnu: ", name >>))
     ELSE LET parsed == SafeParse(DispatchCases(v)[k].schema, args) IN
          IF ~parsed.success
            THEN CatchBlock(c, InvalidArguments(DispatchCases(v)[k].label, parsed.issues))
            ELSE callReferencimeAPI(v, key, [c EXCEPT !.data = parsed.data])

\* every status below 400 taken for a success
ResponseOkBelow400(response) == response.status >= 200 /\ response.status < 400

\* response.ok
ResponseOk(response) == response.status >= 200 /\ response.status <= 299

\* from the resolved fetch to `await response.json()`
OnResponse(c, response) ==
  IF ~ResponseOk(response)
    THEN GatewayCatch([c EXCEPT !.response = response],
                      Err("UpstreamHttp",
                          << "Erreur API WordPress: ", ToString(response.status), " ",
                             response.statusText >>))
    ELSE [c EXCEPT !.pc = "json", !.response = response, !.bodyRead = TRUE]

\* a gateway that sends the request a second time when the network fails
OnNetworkErrorRetry(c) ==
  IF Len(c.requests) < 2
    THEN [c EXCEPT !.requests = Append(@, @[1])]
    ELSE GatewayCatch([c EXCEPT !.response = Rejected], Err("Network", << "fetch failed" >>))

\* fetch rejected: the network failed
OnNetworkError(c) ==
  GatewayCatch([c EXCEPT !.response = Rejected], Err("Network", << "fetch failed" >>))

\* response.json() rejected: the body is not JSON
OnBodyError(c) ==
  GatewayCatch([c EXCEPT !.body = Unparseable], Err("Parse", << "Unexpected token in JSON" >>))

\* the formatter of the case the call was dispatched to
FormatCase(v, name, data, result) ==
  IF v = "2.0.0"
    THEN CASE name = "list_websites_by_user" -> FormatListWebsitesByUser(result)
           [] name = "list_categories_by_website" -> FormatListCategoriesByWebsite(result)
           [] name = "list_keywords_by_website" -> FormatListKeywordsByWebsite(result)
           [] name = "list_keywords_by_categories_by_website" ->
                FormatListKeywordsByCategoriesByWebsite(result)
           [] name = "get_website_performance_summary" -> FormatWebsiteSummaryV2(result)
    ELSE CASE name = "analyze_keyword_performance" -> FormatAnalyzeKeyword(data, result)
           [] name = "get_position_evolution" -> FormatPositionEvolution(data, result)
           [] name = "compare_keywords_performance" -> FormatCompareKeywords(result)
           [] name = "get_website_performance_summary" -> FormatWebsiteSummaryV1(data, result)
           [] name = "detect_ranking_changes" -> FormatRankingChanges(result)
           [] name = "list_user_websites" -> FormatListUserWebsites(result)
           [] name = "get_keywords_by_categories" -> FormatGetKeywordsByCategories(result)

\* the fallback text whatever the body says
ApplicationErrorFallbackOnly(body) ==
  Err("UpstreamApplication", << "Erreur dans la reponse API: ", "Erreur inconnue" >>)

\* the error thrown for a body whose success field is falsy
ApplicationError(body) ==
  Err("UpstreamApplication",
      << "Erreur dans la reponse API: ",
         Str(OrElse(GetP(body, "message"), JStr("Erreur inconnue"))) >>)

\* from the parsed body to the handler's return: the envelope check of
\* callReferencimeAPI, then the case's formatter on result.data
\* a gateway that returns the envelope itself instead of its data
OnBodyWholeEnvelope(v, c0, body) ==
  LET c == [c0 EXCEPT !.body = body] IN
  IF Nullish(body)
    THEN GatewayCatch(c, Err("Envelope", << "Cannot read properties of null" >>))
  ELSE IF ~Truthy(GetP(body, "success")) THEN GatewayCatch(c, ApplicationError(body))
  ELSE LET f == FormatCase(v, c.name, c.data, body) IN
       IF f.ok THEN ReturnText([c EXCEPT !.formatted = TRUE], f.text)
       ELSE CatchBlock([c EXCEPT !.formatted = TRUE], Err("Formatter", f.text))

OnBody(v, c0, body) ==
  LET c == [c0 EXCEPT !.body = body] IN
  IF Nullish(body)
    THEN GatewayCatch(c, Err("Envelope", << "Cannot read properties of null" >>))
  ELSE IF ~Truthy(GetP(body, "success")) THEN GatewayCatch(c, ApplicationError(body))
  ELSE LET f == FormatCase(v, c.name, c.data, GetP(body, "data")) IN
       IF f.ok THEN ReturnText([c EXCEPT !.formatted = TRUE], f.text)
       ELSE CatchBlock([c EXCEPT !.formatted = TRUE], Err("Formatter", f.text))

-----------------------------------------------------------------------------
(* What the environment can send: requests, HTTP responses, JSON bodies *)

\* request slots handled at the same time
MaxCalls == 2
\* fields of a valid minimal argument object that a request changes
MaxEdits == 1

\* keywords a long category holds beyond the cap of its list
MaxOver == 2

Slots == 1..MaxCalls

Variants == {"2.0.0", "1.1.3"}

ToolNames ==
  CaseNames(DispatchCases("2.0.0")) \cup CaseNames(DispatchCases("1.1.3")) \cup {"unknown_tool"}

\* the schema a name is parsed with (none for a name the variant has no case for)
SchemaOf(v, name) ==
  IF SwitchCase(DispatchCases(v), name) = 0 THEN <<>>
  ELSE DispatchCases(v)[SwitchCase(DispatchCases(v), name)].schema

SchemaFields(schema) == { schema[i].name : i \in DOMAIN schema }
RequiredFields(schema) == { schema[i].name : i \in { j \in DOMAIN schema : ~schema[j].optional } }

\* a value of the type a field declares
ValidValue(ty) ==
  CASE ty = "number" -> JNum(7)
    [] ty = "string" -> JStr("seo")
    [] ty = "boolean" -> JBool(TRUE)
    [] ty = "array" -> JArr(<< JStr("seo"), JStr("ref") >>)

\* the required fields alone, each with a value of its type
MinimalArgs(v, name) ==
  LET schema == SchemaOf(v, name) IN
  JObj([f \in RequiredFields(schema) |-> ValidValue(SpecOf(schema, f).type)])

SampleValues ==
  { JNum(0), JNum(7), JStr("7"), JBool(TRUE), JBool(FALSE), JNull,
    JArr(<< JStr("a") >>), JArr(<< JNum(7) >>), JArr(<<>>) }

\* one field set to a sample value, or removed
EditsOf(schema, args) ==
  { WithProp(args, f, val) : f \in SchemaFields(schema) \cup {"extra_field"}, val \in SampleValues }
  \cup { WithoutProp(args, f) : f \in DOMAIN args.o }

RECURSIVE EditedArgs(_, _, _)
EditedArgs(schema, base, n) ==
  IF n = 0 THEN {base}
  ELSE LET prev == EditedArgs(schema, base, n - 1)
       IN prev \cup UNION { EditsOf(schema, a) : a \in prev }

\* the argument values of the requests: no arguments at all, or the minimal valid
\* object with up to MaxEdits fields changed
ArgsOf(v, name) == {JUndef} \cup EditedArgs(SchemaOf(v, name), MinimalArgs(v, name), MaxEdits)

\* the argument values of the concurrent runs: none, empty, minimal, one extra field
FewArgsOf(v, name) ==
  { JUndef, EmptyObj, MinimalArgs(v, name),
    WithProp(MinimalArgs(v, name), "extra_field", JStr("7")) }

Responses ==
  { Response(200, "OK"), Response(201, "Created"), Response(299, ""),
    Response(300, "Multiple Choices"), Response(304, "Not Modified"),
    Response(404, "Not Found"), Response(500, "Internal Server Error") }

FewResponses == { r \in Responses : r.status \in {200, 500} }

\* the documented data of each tool, as the backend sends it
WebsitesData ==
  JObj([user_id |-> JNum(7), websites_count |-> JNum(2),
        websites |-> JArr(<<
          JObj([id |-> JNum(1), domain |-> JStr("a.fr"), is_favorite |-> JBool(TRUE),
                created_date |-> JStr("2024-01-01")]),
          JObj([id |-> JNum(2), domain |-> JStr("b.fr"), is_favorite |-> JBool(FALSE),
                created_date |-> JStr("2024-02-01")]) >>)])

CategoriesData ==
  JObj([website_id |-> JNum(7), categories_count |-> JNum(1),
        categories |-> JArr(<< JObj([name |-> JStr("seo"), keywords_count |-> JNum(2)]) >>)])

KeywordsData ==
  JObj([website_id |-> JNum(7), keywords_count |-> JNum(3), include_metrics |-> JBool(TRUE),
        keywords |-> JArr(<<
          JObj([keyword |-> JStr("k1"), category_name |-> JStr("seo"),
                search_volume |-> JNum(10)]),
          JObj([keyword |-> JStr("k2"), category_name |-> JNull]),
          JObj([keyword |-> JStr("k3"), category_name |-> JStr("seo")]) >>)])

KeywordsByCategoriesData ==
  JObj([website_id |-> JNum(7), period_days |-> JNum(30), include_performance |-> JBool(TRUE),
        has_gsc_data |-> JBool(TRUE), last_updated |-> JStr("2024-01-01"),
        summary |-> JObj([total_keywords |-> JNum(2), total_categories |-> JNum(1),
                          uncategorized_keywords |-> JNum(0)]),
        categories |-> JArr(<<
          JObj([category_name |-> JStr("seo"), keywords_count |-> JNum(2),
                keywords |-> JArr(<<
                  JObj([keyword |-> JStr("k1"), search_volume |-> JNum(10),
                        performance_metrics |->
                          JObj([has_data |-> JBool(TRUE), position |-> JNum(3),
                                clicks |-> JNum(5), impressions |-> JNum(50),
                                ctr |-> JNum(0)])]),
                  JObj([keyword |-> JStr("k2"),
                        performance_metrics |-> JObj([has_data |-> JBool(FALSE)])]) >>)]) >>)])

DistributionData ==
  JObj([position_distribution |->
          JObj([top3 |-> JNum(1), top10 |-> JNum(1), top20 |-> JNum(2),
                top50 |-> JNum(2), top100 |-> JNum(2)])])

SummaryDataV2 ==
  JObj([website_id |-> JNum(7), has_data |-> JBool(TRUE),
        period |-> JObj([start_date |-> JStr("2024-01-01"), end_date |-> JStr("2024-01-30"),
                         days |-> JNum(30)]),
        overall_metrics |->
          JObj([total_keywords |-> JNum(2),
                total_clicks |-> JObj([current |-> JNum(5), evolution_text |-> JStr("+1")]),
                total_impressions |-> JNum(50),
                average_position |-> JNum(3), average_ctr |-> JNum(0)]),
        performance_changes |-> DistributionData,
        top_performing_keywords |->
          JArr(<< JObj([keyword |-> JStr("k1"), position |-> JNum(3), clicks |-> JNum(5)]) >>),
        categories |-> JArr(<<
          JObj([category_name |-> JStr("seo"), keywords_count |-> JNum(2),
                metrics |->
                  JObj([position |-> JObj([current |-> JNum(3), compare |-> JNum(4),
                                           evolution |-> JNum(1)]),
                        clicks |-> JObj([current |-> JNum(5), evolution_percent |-> JNull]),
                        impressions |-> JObj([current |-> JNum(50),
                                              evolution_percent |-> JNum(10)])]),
                top_keywords |-> JArr(<< JObj([keyword |-> JStr("k1")]) >>)]) >>)])

SummaryDataV1 ==
  JObj([website_id |-> JNum(7), has_data |-> JBool(TRUE), period_days |-> JNum(30),
        overall_metrics |->
          JObj([total_keywords |-> JNum(2), total_clicks |-> JNum(5),
                total_impressions |-> JNum(50), average_position |-> JNum(3),
                average_ctr |-> JNum(0)]),
        performance_changes |-> DistributionData,
        top_performing_keywords |->
          JArr(<< JObj([keyword |-> JStr("k1"), position |-> JNum(3), clicks |-> JNum(5)]) >>)])

AnalyzeKeywordData ==
  JObj([website_id |-> JNum(7), current_position |-> JNum(3), search_volume |-> JNum(10),
        difficulty_score |-> JNum(40), estimated_traffic |-> JNum(5),
        competition_level |-> JStr("low"), trend |-> JStr("up"),
        last_updated |-> JStr("2024-01-01")])

PositionEvolutionData ==
  JObj([website_id |-> JNum(7), period |-> JStr("30days"), best_position |-> JNum(2),
        average_position |-> JNum(3), position_change |-> JNum(1),
        historical_positions |-> JArr(<<
          JObj([date |-> JStr("2024-01-01"), position |-> JNum(3), clicks |-> JNum(5),
                impressions |-> JNum(50)]) >>)])

CompareKeywordsData ==
  JObj([website_id |-> JNum(7), total_analyzed |-> JNum(1), best_performer |-> JStr("k1"),
        comparison_date |-> JStr("2024-01-01"),
        recommendations |-> JArr(<< JStr("r1") >>),
        keywords_analysis |-> JArr(<<
          JObj([keyword |-> JStr("k1"), position |-> JNum(3), search_volume |-> JNum(10),
                estimated_traffic |-> JNum(5), trend_direction |-> JStr("up"),
                monthly_change |-> JNum(1)]) >>)])

RankingChangesData ==
  JObj([website_id |-> JNum(7), has_data |-> JBool(TRUE), period_days |-> JNum(7),
        threshold |-> JNum(3),
        summary |-> JObj([changes_detected |-> JNum(2), improvements |-> JNum(1),
                          drops |-> JNum(1), major_changes |-> JNum(1),
                          new_entries |-> JNum(0), disappeared |-> JNum(0)]),
        significant_changes |-> JArr(<<
          JObj([keyword |-> JStr("k1"), change_type |-> JStr("improvement"),
                old_position |-> JNum(9), new_position |-> JNum(3), change |-> JNum(-6),
                clicks |-> JNum(5), impressions |-> JNum(50), significance |-> JStr("major")]),
          JObj([keyword |-> JStr("k2"), change_type |-> JStr("drop"),
                old_position |-> JNum(3), new_position |-> JNum(8), change |-> JNum(5),
                clicks |-> JNum(0), impressions |-> JNum(0),
                significance |-> JStr("minor")]) >>)])

\* the documented data of the tool a variant serves under a name
DocumentedData(v, name) ==
  IF v = "2.0.0"
    THEN CASE name = "list_websites_by_user" -> WebsitesData
           [] name = "list_categories_by_website" -> CategoriesData
           [] name = "list_keywords_by_website" -> KeywordsData
           [] name = "list_keywords_by_categories_by_website" -> KeywordsByCategoriesData
           [] name = "get_website_performance_summary" -> SummaryDataV2
           [] OTHER -> EmptyObj
    ELSE CASE name = "analyze_keyword_performance" -> AnalyzeKeywordData
           [] name = "get_position_evolution" -> PositionEvolutionData
           [] name = "compare_keywords_performance" -> CompareKeywordsData
           [] name = "get_website_performance_summary" -> SummaryDataV1
           [] name = "detect_ranking_changes" -> RankingChangesData
           [] name = "list_user_websites" -> WebsitesData
           [] name = "get_keywords_by_categories" -> KeywordsByCategoriesData
           [] OTHER -> EmptyObj

\* further data the backend can answer with under a name: the no-data flag
\* false or null, with and without the other fields; for the website lists,
\* no, one and several websites in any order, favorite or not, with a
\* websites_count that is or is not their number; for detect_ranking_changes,
\* no change, changes of the four types the code names and of other types,
\* major and minor, with and without traffic; for list_keywords_by_website, keywords whose categories run
\* beyond the cap, stop at the cap, interleave, have integer-like names, a name
\* Object.prototype defines, or no name; for the keywords-by-categories tools,
\* categories beyond and at the cap whose keywords_count equals or differs from
\* the length of the keywords array, with keywords at a position, at position
\* 0 and without performance metrics
FurtherData(v, name) ==
  LET full == DocumentedData(v, name)
      flags == DOMAIN full.o \cap {"has_gsc_data", "has_data"}
      unflagged == { WithProp(full, f, flag) : f \in flags, flag \in {JBool(FALSE), JNull} }
      \* an answer that says no more than that there is no data
      bare == { JObj([website_id |-> JNum(7), period_days |-> JNum(30)]) }
      unflaggedBare == { WithProp(b, f, JBool(FALSE)) : b \in bare, f \in flags }
      \* keyword i is named k<i> and carries the category name cats[i]
      KeywordsIn(cats) ==
        JObj([website_id |-> JNum(7), keywords_count |-> JNum(Len(cats)),
              include_metrics |-> JBool(FALSE),
              keywords |-> JArr([i \in DOMAIN cats |->
                                   JObj([keyword |-> JStr("k" \o ToString(i)),
                                         category_name |-> cats[i]])])])
      CategorySequences ==
        { [i \in 1..(KeywordsCap + over) |-> JStr("seo")] : over \in {0, 1, MaxOver} }
        \cup { [i \in 1..(KeywordsCap + MaxOver + 1) |->
                  IF i = 2 THEN JStr("tech") ELSE JStr("seo")] }
        \cup { << JStr("seo"), JStr("tech"), JStr("seo") >>,
               << JStr("tech"), JStr("seo"), JStr("tech") >>,
               << JStr("seo"), JStr("10"), JStr("seo") >>,
               << JStr("seo"), JStr("10"), JStr("2") >>,
               << JStr("2"), JStr("10") >>,
               << JStr("seo"), JNull, JStr("tech") >>,
               << JStr("seo"), JStr("constructor") >>,
               << JStr("toString"), JStr("seo"), JStr("toString") >>,
               << JStr(""), JStr("seo"), JUndef, JStr("tech"), JNull, JStr("seo") >> }
      \* n keywords named <prefix><i>, keyword i at position positions[i]
      \* when positions has one for it, without performance metrics otherwise
      CategoryKeywords(prefix, n, positions) ==
        [i \in 1..n |->
           IF i \in DOMAIN positions
             THEN JObj([keyword |-> JStr(prefix \o ToString(i)),
                        performance_metrics |->
                          JObj([has_data |-> JBool(TRUE), position |-> JNum(positions[i]),
                                clicks |-> JNum(1), impressions |-> JNum(9)])])
             ELSE JObj([keyword |-> JStr(prefix \o ToString(i))])]
      Category(cat, count, keywords) ==
        JObj([category_name |-> JStr(cat), keywords_count |-> count,
              keywords |-> JArr(keywords)])
      n == CategoryCap + MaxOver
      CategoryLists ==
        UNION { { << Category("seo", JNum(CategoryCap + over),
                             CategoryKeywords("k", CategoryCap + over, pos)) >> :
                    pos \in { <<>>, 2 :> 2 @@ (CategoryCap + over) :> (CategoryCap + over),
                              << 1, 2, 10 >>, << 0, 4 >>, << 0 >> } } :
                over \in {0, 1, MaxOver} }
        \cup { << Category("seo", count, CategoryKeywords("k", n, 1 :> 1 @@ n :> n)) >> :
                 count \in { JNum(0), JNum(CategoryCap), JNum(n - 1), JNum(n + 1), JUndef } }
        \cup { << Category("tech", JNum(2), CategoryKeywords("t", 2, 2 :> 2)),
                  Category("seo", JNum(n), CategoryKeywords("k", n, 1 :> 1 @@ 2 :> 2 @@ n :> n)) >>,
               << Category("seo", JNum(2), CategoryKeywords("k", 2, <<>>)),
                  Category("tech", JNum(1), CategoryKeywords("t", 1, <<>>)) >>,
               << Category("seo", JNum(5), CategoryKeywords("k", 2, <<>>)),
                  Category("tech", JNum(0), CategoryKeywords("t", 1, <<>>)) >>,
               << Category("seo", JNum(CategoryCap + 1),
                           CategoryKeywords("k", CategoryCap, <<>>)) >>,
               << Category("seo", JNum(0), <<>>) >> }
      \* website i, with the given is_favorite (none when undefined)
      Website(i, favorite) ==
        LET w == JObj([id |-> JNum(i), domain |-> JStr("s" \o ToString(i) \o ".fr"),
                       created_date |-> JStr("2024-01-01")])
        IN IF favorite.t = "undefined" THEN w ELSE WithProp(w, "is_favorite", favorite)
      WebsiteLists ==
        { <<>>,
          << Website(1, JBool(TRUE)) >>,
          << Website(3, JBool(FALSE)), Website(1, JBool(TRUE)), Website(2, JBool(TRUE)) >>,
          << Website(2, JNull), Website(1, JNum(0)), Website(3, JUndef) >>,
          << Website(2, JNum(1)), Website(1, JBool(FALSE)) >> }
      WebsiteAnswers ==
        { JObj([user_id |-> JNum(7), websites_count |-> count, websites |-> JArr(ws)]) :
            ws \in WebsiteLists, count \in { JNum(0), JNum(2), JNum(5), JStr("2") } }
      \* change i, of keyword c<i>, of the given type and significance, with
      \* or without traffic
      Change(i, type, significance, clicks) ==
        JObj([keyword |-> JStr("c" \o ToString(i)), change_type |-> JStr(type),
              old_position |-> JNum(9), new_position |-> JNum(3), change |-> JNum(-6),
              clicks |-> JNum(clicks), impressions |-> JNum(0),
              significance |-> JStr(significance)])
      ChangeLists ==
        { <<>>,
          << Change(1, "new_entry", "minor", 0), Change(2, "disappeared", "major", 4),
             Change(3, "drop", "major", 0), Change(4, "improvement", "minor", 2) >>,
          << Change(2, "drop", "minor", 0), Change(1, "drop", "minor", 0) >>,
          << Change(1, "stable", "minor", 0) >>,
          << Change(1, "stable", "minor", 0), Change(2, "volatile", "minor", 0) >>,
          << Change(1, "improvement", "minor", 0), Change(2, "stable", "major", 3) >> }
  IN unflagged \cup unflaggedBare
     \cup (IF name = "detect_ranking_changes"
             THEN { WithProp(full, "significant_changes", JArr(cs)) : cs \in ChangeLists }
             ELSE {})
     \cup (IF name \in {"list_websites_by_user", "list_user_websites"}
             THEN WebsiteAnswers ELSE {})
     \cup (IF name = "list_keywords_by_website"
             THEN { KeywordsIn(cats) : cats \in CategorySequences } ELSE {})
     \cup (IF name \in {"list_keywords_by_categories_by_website", "get_keywords_by_categories"}
             THEN { WithProp(full, "categories", JArr(cs)) : cs \in CategoryLists } ELSE {})

\* the data a success envelope can carry: the documented data, the documented
\* data without one of its fields, no data at all, further answers
DataOf(v, name) ==
  LET full == DocumentedData(v, name) IN
  {full, JUndef, JNull} \cup { WithoutProp(full, f) : f \in DOMAIN full.o }
  \cup FurtherData(v, name)

Envelope(success, message, data) ==
  LET e0 == EmptyObj
      e1 == IF success.t = "undefined" THEN e0 ELSE WithProp(e0, "success", success)
      e2 == IF message.t = "undefined" THEN e1 ELSE WithProp(e1, "message", message)
  IN IF data.t = "undefined" THEN e2 ELSE WithProp(e2, "data", data)

\* the JSON values response.json() can resolve to
BodiesOf(v, name) ==
  { JNull, JArr(<<>>) }
  \cup { Envelope(success, message, JUndef) :
           success \in {JUndef, JBool(FALSE)},
           message \in {JUndef, JStr("X"), JStr("")} }
  \cup { Envelope(JBool(FALSE), JStr("X"), DocumentedData(v, name)) }
  \cup { Envelope(JBool(TRUE), JUndef, data) : data \in DataOf(v, name) }

FewBodiesOf(v, name) ==
  { Envelope(JBool(FALSE), JStr("X"), JUndef),
    Envelope(JBool(TRUE), JUndef, DocumentedData(v, name)),
    Envelope(JBool(TRUE), JUndef, JUndef) }

\* some names a variant serves, and one none serves
FewNames == { "list_websites_by_user", "list_user_websites",
              "get_website_performance_summary", "unknown_tool" }

\* what the caller and the backend send: everything above when the calls are
\* handled one at a time ("all"), a few of each when they are handled
\* concurrently ("few"), and the tool both variants serve against an unknown one,
\* with and without its required argument, when every call is followed to its
\* end ("least")
NamesSent(inputs) ==
  CASE inputs = "all" -> ToolNames
    [] inputs = "few" -> FewNames
    [] inputs = "least" -> { "get_website_performance_summary", "unknown_tool" }
ArgsSent(inputs, v, name) ==
  CASE inputs = "all" -> ArgsOf(v, name)
    [] inputs = "few" -> FewArgsOf(v, name)
    [] inputs = "least" -> { EmptyObj, MinimalArgs(v, name) }
ResponsesSent(inputs) == IF inputs = "all" THEN Responses ELSE FewResponses
BodiesSent(inputs, v, name) ==
  IF inputs = "all" THEN BodiesOf(v, name) ELSE FewBodiesOf(v, name)

-----------------------------------------------------------------------------
(* The process and its request handlers *)

Argvs == { <<>>, << "start" >>, << "help" >>, << "--start" >>, << "START" >>,
           << "help", "start" >> }
EnvKeys == { JUndef, JStr(""), JStr("sk_live") }

Init ==
  /\ variant \in Variants
  /\ argv \in Argvs
  /\ envKey \in EnvKeys
  /\ proc = "boot"
  /\ output = <<>>
  /\ listed = <<>>
  /\ calls = [i \in Slots |-> Idle]

\* the four console.log calls of the else branch: the usage line, an empty line,
\* the title and the JSON.stringify of the sample configuration
UsageText ==
  << "stdout: Usage: referencime-mcp start",
     "stdout: ",
     "stdout: Configuration Claude Desktop:",
     "stdout: {mcpServers: {referencime: {command, args, env: {REFERENCIME_API_KEY}}}}" >>

\* an entry point that also starts the server when no argument is given
EntryPointStartsByDefault ==
  /\ proc = "boot"
  /\ IF Len(argv) = 0 \/ argv[1] = "start"
       THEN /\ proc' = "runServer"
            /\ output' = output
       ELSE /\ proc' = "exit0"
            /\ output' = output \o UsageText
  /\ UNCHANGED <<variant, argv, envKey, listed, calls>>

\* the entry point: `start` runs the server, anything else prints the usage and
\* the script ends, nothing keeping the process alive
EntryPoint ==
  /\ proc = "boot"
  /\ IF Len(argv) > 0 /\ argv[1] = "start"
       THEN /\ proc' = "runServer"
            /\ output' = output
       ELSE /\ proc' = "exit0"
            /\ output' = output \o UsageText
  /\ UNCHANGED <<variant, argv, envKey, listed, calls>>

\* runServer up to the transport: the key check, process.exit(1) without a key
MissingKeyDiagnostic ==
  << "stderr: REFERENCIME_API_KEY manquant !",
     "stderr: Ajoutez votre cle API dans la configuration Claude Desktop :",
     "stderr: env: { REFERENCIME_API_KEY: votre_cle_api }" >>

\* a runServer that attaches the transport without looking at the key
RunServerWithoutKeyCheck ==
  /\ proc = "runServer"
  /\ proc' = "connecting"
  /\ output' = output \o << "stderr: Demarrage du serveur" >>
  /\ UNCHANGED <<variant, argv, envKey, listed, calls>>

RunServer ==
  /\ proc = "runServer"
  /\ IF getApiKey(envKey).fault = "none"
       THEN /\ proc' = "connecting"
            /\ output' = output \o << "stderr: Demarrage du serveur", "stderr: Cle API detectee" >>
       ELSE /\ proc' = "exit1"
            /\ output' = output \o << "stderr: Demarrage du serveur" >> \o MissingKeyDiagnostic
  /\ UNCHANGED <<variant, argv, envKey, listed, calls>>

\* server.connect(transport): from here on requests are served
Connect ==
  /\ proc = "connecting"
  /\ proc' = "serving"
  /\ output' = output \o << "stderr: Serveur pret",
                            "stderr: " \o ToString(Len(ListToolsNames(variant)))
                              \o " outils d'analyse SEO disponibles",
                            "stderr: Connecte aux APIs WordPress Referencime" >>
  /\ UNCHANGED <<variant, argv, envKey, listed, calls>>

\* server.connect(transport) rejects: the .catch of the entry point logs the
\* error and calls process.exit(1)
ConnectFails ==
  /\ proc = "connecting"
  /\ proc' = "exit1"
  /\ output' = output \o << "stderr: Erreur fatale:" >>
  /\ UNCHANGED <<variant, argv, envKey, listed, calls>>

\* the ListTools handler
ListTools ==
  /\ proc = "serving"
  /\ listed' = ListToolsNames(variant)
  /\ UNCHANGED <<variant, argv, envKey, proc, output, calls>>

\* a call-tool request arrives: the handler runs to its first await or to its return
CallTool(i, inputs) ==
  /\ proc = "serving"
  /\ calls[i].pc = "idle"
  /\ \E name \in NamesSent(inputs) : \E args \in ArgsSent(inputs, variant, name) :
       calls' = [calls EXCEPT ![i] = HandleCall(variant, envKey, name, args)]
  /\ UNCHANGED <<variant, argv, envKey, proc, output, listed>>

\* the backend answers the fetch
FetchResolves(i, inputs) ==
  /\ calls[i].pc = "fetch"
  /\ \E response \in ResponsesSent(inputs) :
       calls' = [calls EXCEPT ![i] = OnResponse(calls[i], response)]
  /\ UNCHANGED <<variant, argv, envKey, proc, output, listed>>

\* the fetch fails
FetchRejects(i) ==
  /\ calls[i].pc = "fetch"
  /\ calls' = [calls EXCEPT ![i] = OnNetworkError(calls[i])]
  /\ UNCHANGED <<variant, argv, envKey, proc, output, listed>>

\* a handler that keeps the tool name in a variable the calls in flight share:
\* the body is formatted under the name of another call awaiting its body
JsonResolvesSharedName(i, inputs) ==
  /\ calls[i].pc = "json"
  /\ \E body \in BodiesSent(inputs, variant, calls[i].name) :
       LET others == { j \in DOMAIN calls : j # i /\ calls[j].pc = "json" }
           current == IF others = {} THEN calls[i].name
                      ELSE calls[CHOOSE j \in others : TRUE].name
           ended == OnBody(variant, [calls[i] EXCEPT !.name = current], body)
       IN calls' = [calls EXCEPT ![i] = [ended EXCEPT !.name = calls[i].name]]
  /\ UNCHANGED <<variant, argv, envKey, proc, output, listed>>

\* the body arrives and parses
JsonResolves(i, inputs) ==
  /\ calls[i].pc = "json"
  /\ \E body \in BodiesSent(inputs, variant, calls[i].name) :
       calls' = [calls EXCEPT ![i] = OnBody(variant, calls[i], body)]
  /\ UNCHANGED <<variant, argv, envKey, proc, output, listed>>

\* the body does not parse
JsonRejects(i) ==
  /\ calls[i].pc = "json"
  /\ calls' = [calls EXCEPT ![i] = OnBodyError(calls[i])]
  /\ UNCHANGED <<variant, argv, envKey, proc, output, listed>>

\* the report is sent to the caller and the call is forgotten
Respond(i) ==
  /\ calls[i].pc = "done"
  /\ calls' = [calls EXCEPT ![i] = Idle]
  /\ UNCHANGED <<variant, argv, envKey, proc, output, listed>>

Lifecycle == EntryPoint \/ RunServer \/ Connect \/ ConnectFails \/ ListTools

\* the server handling one call at a time, over every argument object, response
\* and body of the sets above
Next ==
  \/ Lifecycle
  \/ CallTool(1, "all")
  \/ FetchResolves(1, "all")
  \/ FetchRejects(1)
  \/ JsonResolves(1, "all")
  \/ JsonRejects(1)
  \/ Respond(1)

Spec == Init /\ [][Next]_vars

\* the server under concurrent calls, each over a few names, arguments and answers
NextInterleaved ==
  \/ Lifecycle
  \/ \E i \in Slots :
       \/ CallTool(i, "few")
       \/ FetchResolves(i, "few")
       \/ FetchRejects(i)
       \/ JsonResolves(i, "few")
       \/ JsonRejects(i)
       \/ Respond(i)

SpecInterleaved == Init /\ [][NextInterleaved]_vars

\* the same server, with every fetch and every response.json() settling in the
\* end: the backend answers or the network fails
NextSettling ==
  \/ Lifecycle
  \/ \E i \in Slots :
       \/ CallTool(i, "least")
       \/ FetchResolves(i, "least")
       \/ FetchRejects(i)
       \/ JsonResolves(i, "least")
       \/ JsonRejects(i)
       \/ Respond(i)

SpecSettling ==
  /\ Init
  /\ [][NextSettling]_vars
  /\ \A i \in Slots :
       /\ WF_vars(FetchResolves(i, "least") \/ FetchRejects(i))
       /\ WF_vars(JsonResolves(i, "least") \/ JsonRejects(i))

-----------------------------------------------------------------------------
(* Properties of the calls.  Each is stated over the record of a call: what the  *)
(* caller sent, what the backend answered, what was sent out and what came back. *)

\* text has the pieces of part, in this order and next to each other
Contains(text, part) ==
  \E k \in 0..(Len(text) - Len(part)) : \A j \in 1..Len(part) : text[k + j] = part[j]

Names(seq) == { seq[i] : i \in DOMAIN seq }

\* the name is one the variant advertises
Advertised(name) == name \in Names(ListToolsNames(variant))

\* the call has returned a report of one text item
Reported(c) ==
  /\ c.pc = "done"
  /\ Len(c.report.content) = 1
  /\ c.report.content[1].type = "text"

\* the call has returned an error-flagged report of one text item
ErrorReported(c) == Reported(c) /\ c.report.isError

ReportText(c) == c.report.content[1].text

\* the value is of the type the field declares, as it stands
HasType(ty, val) ==
  IF ty = "array"
    THEN val.t = "array" /\ \A i \in DOMAIN val.a : val.a[i].t = "string"
    ELSE val.t = ty

\* the argument mapping has every required field and no declared field of a wrong type
WellTyped(schema, args) ==
  /\ args.t = "object"
  /\ RequiredFields(schema) \subseteq DOMAIN args.o
  /\ \A f \in SchemaFields(schema) \cap DOMAIN args.o :
       HasType(SpecOf(schema, f).type, args.o[f])

\* the status is outside 200..299
NonSuccessStatus(response) ==
  response.kind = "response" /\ ~(response.status \in 200..299)

\* something failed in the call: the dispatch, the validation, the exchange with
\* the backend, the envelope, or the formatter
Failed(c) ==
  \/ ~Advertised(c.name)
  \/ ~WellTyped(SchemaOf(variant, c.name), c.args)
  \/ c.response.kind = "rejected"
  \/ NonSuccessStatus(c.response)
  \/ c.body = Unparseable
  \/ c.body # JUndef /\ c.body # Unparseable /\ ~Truthy(GetP(c.body, "success"))
  \/ /\ c.formatted
     /\ ~FormatCase(variant, c.name, c.data, GetP(c.body, "data")).ok

\* C1: every call returns a report of one text item and no fault escapes the
\* handler; a call in which the validation, the gateway or the formatter failed
\* has returned a report with isError = true whose text contains the message of
\* the error
C1_FailuresBecomeErrorReports ==
  \A i \in Slots :
    LET c == calls[i] IN
    /\ ~c.escaped
    /\ c.pc = "done" => Reported(c)
    /\ c.pc # "idle" /\ Failed(c) =>
         /\ ErrorReported(c)
         /\ c.error.message # <<>>
         /\ Contains(ReportText(c), c.error.message)

\* a formatter read a field the data lacks, and the call returned an error report
C1_Witness ==
  \E i \in Slots :
    /\ ErrorReported(calls[i])
    /\ calls[i].formatted
    /\ calls[i].error.fault = "Formatter"

\* C2: a call of a tool with a required field whose argument mapping omits the
\* field has returned an error-flagged report that names the tool of the request
\* and the missing field, and has sent no request; a call without any argument
\* mapping has returned an error-flagged report naming the tool; and no call has
\* sent a request unless its arguments passed the validation
C2_MissingRequiredField ==
  \A i \in Slots :
    LET c == calls[i]
        schema == SchemaOf(variant, c.name)
    IN /\ c.pc # "idle" /\ Advertised(c.name) /\ c.args.t = "object" =>
            \A f \in RequiredFields(schema) \ DOMAIN c.args.o :
              /\ ErrorReported(c)
              /\ Contains(ReportText(c), << "Arguments invalides pour ", c.name, ": " >>)
              /\ Contains(ReportText(c), << "undefined", f, "Required" >>)
              /\ c.requests = <<>>
       /\ c.pc # "idle" /\ Advertised(c.name) /\ c.args.t # "object" =>
            /\ ErrorReported(c)
            /\ Contains(ReportText(c), << "Arguments invalides pour ", c.name, ": " >>)
            /\ c.requests = <<>>
       /\ c.requests # <<>> => WellTyped(schema, c.args)

\* keyword is given, website_id is not
C2_Witness ==
  \E i \in Slots :
    /\ ErrorReported(calls[i])
    /\ calls[i].name = "get_position_evolution"
    /\ calls[i].args.t = "object"
    /\ DOMAIN calls[i].args.o = {"keyword"}

\* C3: a call that gives a declared field a value of another type than the
\* field declares has returned an error-flagged report of an invalid type that
\* names the field, and has sent no request
C3_NoCoercion ==
  \A i \in Slots :
    LET c == calls[i]
        schema == SchemaOf(variant, c.name)
    IN c.pc # "idle" /\ Advertised(c.name) /\ c.args.t = "object" =>
         \A f \in SchemaFields(schema) \cap DOMAIN c.args.o :
           ~HasType(SpecOf(schema, f).type, c.args.o[f]) =>
             /\ ErrorReported(c)
             /\ c.error.fault = "Validation"
             /\ Contains(ReportText(c), << "invalid_type" >>)
             /\ f \in Names(ReportText(c))
             /\ c.requests = <<>>

\* the string "7" where website_id declares a number
C3_Witness ==
  \E i \in Slots :
    /\ ErrorReported(calls[i])
    /\ calls[i].args.t = "object"
    /\ "website_id" \in DOMAIN calls[i].args.o
    /\ calls[i].args.o["website_id"] = JStr("7")

\* C4: fields the schema does not declare make no validation fail, and the body
\* of a request has no field the schema does not declare
C4_UndeclaredFieldsDropped ==
  \A i \in Slots :
    LET c == calls[i]
        schema == SchemaOf(variant, c.name)
    IN /\ c.pc # "idle" /\ Advertised(c.name) /\ WellTyped(schema, c.args) =>
            /\ c.error.fault # "Validation"
            /\ Len(c.requests) = 1
       /\ \A k \in DOMAIN c.requests :
            /\ c.requests[k].body.t = "object"
            /\ DOMAIN c.requests[k].body.o \subseteq SchemaFields(schema)

\* a request went out for a call whose arguments carry an undeclared field
C4_Witness ==
  \E i \in Slots :
    /\ calls[i].pc = "fetch"
    /\ Len(calls[i].requests) = 1
    /\ "extra_field" \in DOMAIN calls[i].args.o

\* the defaults of the omitted optional fields
DocumentedDefault(name, f) ==
  CASE f = "include_metrics" -> JBool(FALSE)
    [] f = "include_performance" -> JBool(TRUE)
    [] f = "period" -> JStr("30days")
    [] f = "days" /\ name = "detect_ranking_changes" -> JNum(7)
    [] f = "days" /\ name # "detect_ranking_changes" -> JNum(30)
    [] f = "threshold" -> JNum(3)
    [] OTHER -> JUndef

\* C5: the body of a request is the normalized argument mapping: a declared field
\* the caller gave keeps its value, an omitted field with a default has the
\* default, an omitted field without a default is absent, and nothing else is there
C5_BodyIsNormalizedArguments ==
  \A i \in Slots :
    LET c == calls[i]
        schema == SchemaOf(variant, c.name)
    IN \A k \in DOMAIN c.requests :
         LET body == c.requests[k].body IN
         /\ body.t = "object"
         /\ DOMAIN body.o \subseteq SchemaFields(schema)
         /\ \A f \in SchemaFields(schema) :
              IF f \in DOMAIN c.args.o
                THEN f \in DOMAIN body.o /\ body.o[f] = c.args.o[f]
              ELSE IF DocumentedDefault(c.name, f) # JUndef
                THEN f \in DOMAIN body.o /\ body.o[f] = DocumentedDefault(c.name, f)
              ELSE f \notin DOMAIN body.o

\* detect_ranking_changes with website_id and a threshold: days takes its default,
\* the dates stay absent
C5_Witness ==
  \E i \in Slots :
    /\ calls[i].pc = "fetch"
    /\ calls[i].name = "detect_ranking_changes"
    /\ DOMAIN calls[i].args.o = {"website_id", "threshold"}
    /\ calls[i].args.o["threshold"] = JNum(0)
    /\ DOMAIN calls[i].requests[1].body.o = {"website_id", "days", "threshold"}

\* C6: the names ListTools advertises are distinct and are the names of the
\* cases of the handler's switch and of the gateway's switch; a call of another
\* name has returned an error-flagged report saying the tool is unknown and has
\* sent no request; the default branch of the gateway's switch is never taken
C6_ToolTablesAgree ==
  /\ Cardinality(Names(ListToolsNames(variant))) = Len(ListToolsNames(variant))
  /\ Names(ListToolsNames(variant)) = CaseNames(DispatchCases(variant))
  /\ Names(ListToolsNames(variant)) = CaseNames(EndpointCases(variant))
  /\ listed # <<>> => listed = ListToolsNames(variant)
  /\ \A i \in Slots :
       LET c == calls[i] IN
       /\ c.pc # "idle" /\ ~Advertised(c.name) =>
            /\ ErrorReported(c)
            /\ Contains(ReportText(c), << "Outil inconnu: ", c.name >>)
            /\ c.requests = <<>>
       /\ c.error.fault # "UnknownToolGateway"

\* the 2.0.0 server has listed its tools and was called with a name of 1.1.3
C6_Witness ==
  /\ variant = "2.0.0"
  /\ listed # <<>>
  /\ \E i \in Slots :
       /\ ErrorReported(calls[i])
       /\ calls[i].name = "list_user_websites"

\* C7: a call whose fetch resolved to a status outside 200..299 has returned an
\* error-flagged report whose text contains the status code; its body was not
\* read and its formatter did not run
C7_NonSuccessStatus ==
  \A i \in Slots :
    LET c == calls[i] IN
    NonSuccessStatus(c.response) =>
      /\ ErrorReported(c)
      /\ Contains(ReportText(c), << ToString(c.response.status) >>)
      /\ ~c.bodyRead
      /\ c.body = JUndef
      /\ ~c.formatted

\* the backend answered 304
C7_Witness ==
  \E i \in Slots :
    /\ ErrorReported(calls[i])
    /\ calls[i].response.kind = "response"
    /\ calls[i].response.status = 304

\* the body is a JSON object or array whose success field is false or absent
SuccessFalseOrAbsent(body) ==
  /\ body.t \in {"object", "array"}
  /\ GetP(body, "success") \in {JUndef, JBool(FALSE)}

\* C8: a call whose response had a success status and a body whose success field
\* is false or absent has returned an error-flagged report and its formatter did
\* not run; the text contains the message of the body when it has one, and the
\* fallback text when it has none
C8_SuccessFalse ==
  \A i \in Slots :
    LET c == calls[i]
        message == GetP(c.body, "message")
    IN SuccessFalseOrAbsent(c.body) =>
         /\ c.response.kind = "response" /\ c.response.status \in 200..299
         /\ ErrorReported(c)
         /\ ~c.formatted
         /\ message.t = "string" /\ message.s # "" =>
              Contains(ReportText(c), << "Erreur dans la reponse API: ", message.s >>)
         /\ message.t = "undefined" \/ message = JStr("") =>
              Contains(ReportText(c), << "Erreur dans la reponse API: ", "Erreur inconnue" >>)

\* the backend answered 200 with {success: false, message: "X"}
C8_Witness ==
  \E i \in Slots :
    /\ ErrorReported(calls[i])
    /\ calls[i].response.status = 200
    /\ calls[i].body = Envelope(JBool(FALSE), JStr("X"), JUndef)

\* C9: a call has sent one request if its name is advertised and its arguments
\* are valid, and none otherwise; it waits only with that one request sent; and
\* a call that ended on a failure of the backend has still sent one request
C9_AtMostOneRequest ==
  \A i \in Slots :
    LET c == calls[i] IN
    /\ Len(c.requests) <= 1
    /\ c.pc # "idle" =>
         (Len(c.requests) = 1 <=>
            Advertised(c.name) /\ WellTyped(SchemaOf(variant, c.name), c.args))
    /\ c.pc \in {"fetch", "json"} => Len(c.requests) = 1 /\ c.error = NoError
    /\ c.response # NoResponse => Len(c.requests) = 1
    /\ c.pc = "fetch" => c.response = NoResponse

\* the network failed and the call has ended with its one request
C9_Witness ==
  \E i \in Slots :
    /\ ErrorReported(calls[i])
    /\ calls[i].response = Rejected
    /\ Len(calls[i].requests) = 1

\* C10: every advertised name has exactly one case in the gateway's switch, no two
\* cases have the same endpoint, and the URL of a request is the base URL followed
\* by the endpoint of the case of the call's name
C10_PathTable ==
  LET table == EndpointCases(variant) IN
  /\ \A n \in Names(ListToolsNames(variant)) :
       Cardinality({ k \in DOMAIN table : table[k].case = n }) = 1
  /\ \A j, k \in DOMAIN table : table[j].endpoint = table[k].endpoint => j = k
  /\ \A i \in Slots : \A r \in DOMAIN calls[i].requests :
       \E k \in DOMAIN table :
         /\ table[k].case = calls[i].name
         /\ calls[i].requests[r].url = baseURL \o table[k].endpoint

\* the 1.1.3 server sent the request of the summary tool, whose name both variants use
C10_Witness ==
  \E i \in Slots :
    /\ variant = "1.1.3"
    /\ calls[i].pc = "fetch"
    /\ calls[i].name = "get_website_performance_summary"
    /\ "period" \in DOMAIN calls[i].args.o
    /\ calls[i].requests[1].url =
         "https://referencime.fr/wp-json/easy-links/v1/ai/get-website-performance-summary"

\* C11: every request sent is a POST to the base URL followed by the endpoint of
\* the call's tool, with the header Authorization: Bearer <key>, the key being
\* the non-empty string of the environment, and Content-Type: application/json
C11_RequestShape ==
  \A i \in Slots : \A r \in DOMAIN calls[i].requests :
    LET request == calls[i].requests[r] IN
    /\ request.method = "POST"
    /\ \E k \in DOMAIN EndpointCases(variant) :
         /\ EndpointCases(variant)[k].case = calls[i].name
         /\ request.url = "https://referencime.fr/wp-json/easy-links/v1"
                            \o EndpointCases(variant)[k].endpoint
    /\ envKey.t = "string"
    /\ envKey.s # ""
    /\ request.authorization = << "Bearer ", envKey.s >>
    /\ request.contentType = "application/json"

\* a request of the 2.0.0 server is out, with the key of the environment
C11_Witness ==
  \E i \in Slots :
    /\ variant = "2.0.0"
    /\ calls[i].pc = "fetch"
    /\ calls[i].name = "list_categories_by_website"
    /\ calls[i].requests[1].authorization = << "Bearer ", "sk_live" >>
    /\ calls[i].requests[1].url =
         "https://referencime.fr/wp-json/easy-links/v1/ai/list-categories-by-website"

SeqHas(seq, x) == \E k \in DOMAIN seq : seq[k] = x

StartPath == Len(argv) > 0 /\ argv[1] = "start"

KeyAbsent == envKey = JUndef \/ envKey = JStr("")

\* no list-tools answer was given and no call was taken
NothingServed == listed = <<>> /\ \A i \in Slots : calls[i] = Idle

\* C12: on the start path without a key the process never attaches the transport
\* and serves nothing; once past the key check it has written the diagnostic and
\* has exited with status 1; no call reports a missing key; and the transport
\* is attached only with the key present and its check passed
C12_MissingKeyFailsFast ==
  /\ StartPath /\ KeyAbsent =>
       /\ proc \in {"boot", "runServer", "exit1"}
       /\ NothingServed
       /\ proc = "exit1" =>
            /\ SeqHas(output, "stderr: REFERENCIME_API_KEY manquant !")
            /\ \A k \in DOMAIN output : output[k] # "stderr: Serveur pret"
  /\ \A i \in Slots : calls[i].error.fault # "MissingCredential"
  /\ proc \in {"connecting", "serving"} =>
       /\ ~KeyAbsent
       /\ SeqHas(output, "stderr: Cle API detectee")

\* start with the key unset: the process has exited with status 1
C12_Witness ==
  /\ argv = << "start" >>
  /\ envKey = JUndef
  /\ proc = "exit1"
  /\ SeqHas(output, "stderr: REFERENCIME_API_KEY manquant !")

\* C13: when the first argument is not 'start' (or there is none) the process
\* never runs the server and serves nothing, with or without the key; what it
\* writes is the usage text with the sample configuration, on stdout, and it
\* ends with status 0; it ends that way in no other case
C13_UsageUnlessStart ==
  /\ ~StartPath =>
       /\ proc \in {"boot", "exit0"}
       /\ NothingServed
       /\ proc = "boot" => output = <<>>
       /\ proc = "exit0" =>
            /\ output = UsageText
            /\ SeqHas(output, "stdout: Usage: referencime-mcp start")
            /\ Len(output) = 4
  /\ proc = "exit0" => ~StartPath

\* 'start' as the second argument only, key set: usage printed, status 0
C13_Witness ==
  /\ argv = << "help", "start" >>
  /\ envKey = JStr("sk_live")
  /\ proc = "exit0"
  /\ output # <<>>

\* the call waits for the backend
Pending(c) == c.pc \in {"fetch", "json"}

\* what a call may do in one step: a pending call stays the same call and stays
\* pending or ends; a call that has ended keeps its report as it is until it is
\* released
CallStep(c, d) ==
  CASE c.pc = "idle" -> d.pc \in {"idle", "fetch", "done"}
    [] c.pc = "fetch" ->
         /\ d.pc \in {"fetch", "json", "done"}
         /\ d.name = c.name /\ d.args = c.args /\ d.requests = c.requests
    [] c.pc = "json" ->
         /\ d.pc \in {"json", "done"}
         /\ d.name = c.name /\ d.args = c.args /\ d.requests = c.requests
    [] c.pc = "done" -> d = c \/ d = Idle

\* a call has a report exactly when it has ended, the report is flagged exactly
\* when something failed in the call, which is when the catch block ran
CallState(c) ==
  /\ c.pc \in {"idle", "fetch", "json", "done"}
  /\ c.pc # "done" => c.report = NoReport /\ c.error = NoError
  /\ c.pc = "done" =>
       /\ Reported(c)
       /\ c.report.isError <=> c.error # NoError
       /\ c.report.isError <=> Failed(c)
       /\ ~c.report.isError => c.formatted

\* C14: a call is pending, then ended with a result or ended with an error, and
\* nothing else: it has one report, set when it ends and not changed after; the
\* report is flagged if and only if the call failed; and, every fetch and every
\* body read being settled in the end, a pending call ends
C14_CallLifecycle ==
  /\ [](\A i \in Slots : CallState(calls[i]))
  /\ [][\A i \in Slots : CallStep(calls[i], calls'[i])]_vars
  /\ \A i \in Slots : (Pending(calls[i]) ~> calls[i].pc = "done")

\* one call has ended with a result while another one still waits for its body
C14_Witness ==
  \E i, j \in Slots :
    /\ calls[i].pc = "done"
    /\ ~calls[i].report.isError
    /\ calls[i].formatted
    /\ calls[j].pc = "json"

\* ---- truncation of long lists ----

Count(text, token) == Cardinality({ i \in DOMAIN text : text[i] = token })

\* the tokens of a text that directly follow a marker token, in order
Following(text, marker) ==
  LET at == { i \in 2..Len(text) : text[i - 1] = marker }
      nth(k) == CHOOSE i \in at : Cardinality({ j \in at : j < i }) = k - 1
  IN [k \in 1..Cardinality(at) |-> text[nth(k)]]

KeywordNames(keywords) == [i \in DOMAIN keywords |-> Str(GetP(keywords[i], "keyword"))]

TruncatingTools ==
  { "list_keywords_by_website", "list_keywords_by_categories_by_website",
    "get_keywords_by_categories" }

CapOf(name) == IF name = "list_keywords_by_website" THEN 20 ELSE 10

EntryMarker(name) == IF name = "list_keywords_by_website" THEN "   * " ELSE "   * **"

TruncationMarker == "   ... et "

\* the data of a call holds the keyword lists its tool renders
HoldsKeywordLists(name, data) ==
  /\ data.t = "object"
  /\ IF name = "list_keywords_by_website"
       THEN GetP(data, "keywords").t = "array"
       ELSE /\ Truthy(GetP(data, "has_gsc_data"))
            /\ GetP(data, "categories").t = "array"
            /\ \A i \in DOMAIN GetP(data, "categories").a :
                 GetP(GetP(data, "categories").a[i], "keywords").t = "array"

\* the keyword lists a tool renders, each the names of its keywords in the
\* backend's order: one list per category name for list_keywords_by_website,
\* one per category for the keywords-by-categories tools
KeywordLists(name, data) ==
  IF name = "list_keywords_by_website"
    THEN LET ks == GetP(data, "keywords").a
             cats == { CatNameOf(ks[i]) : i \in DOMAIN ks }
             InCat(cat) == SelectSeq(ks, LAMBDA k : CatNameOf(k) = cat)
         IN [cat \in cats |-> KeywordNames(InCat(cat))]
    ELSE LET cs == GetP(data, "categories").a
         IN [i \in DOMAIN cs |-> KeywordNames(GetP(cs[i], "keywords").a)]

Rendered(c) == c.pc = "done" /\ c.formatted /\ ~c.report.isError

\* result.data of the envelope a rendered call has read
Result(c) == GetP(c.body, "data")

\* a list longer than the cap shows its first cap keywords, in order, and a
\* truncation line stating how many remain
Truncated(text, name, list) ==
  LET cap == CapOf(name)
      own == { list[i] : i \in DOMAIN list }
  IN /\ SelectSeq(Following(text, EntryMarker(name)), LAMBDA n : n \in own)
          = SubSeq(list, 1, cap)
     /\ Contains(text, << TruncationMarker, ToString(Len(list) - cap) >>)

\* C15: a rendered list of N keywords, N above the cap (20 in
\* list_keywords_by_website, 10 per category in the keywords-by-categories
\* tools), shows exactly the first cap keywords in input order followed by
\* exactly one truncation line stating the N - cap keywords that remain.
C15_TruncationStatesRemainder ==
  \A i \in Slots :
    LET c == calls[i] IN
    (Rendered(c) /\ c.name \in TruncatingTools /\ HoldsKeywordLists(c.name, Result(c))) =>
      LET lists == KeywordLists(c.name, Result(c))
          long == { k \in DOMAIN lists : Len(lists[k]) > CapOf(c.name) }
      IN /\ \A k \in long : Truncated(ReportText(c), c.name, lists[k])
         /\ Count(ReportText(c), TruncationMarker) = Cardinality(long)

\* the part of C15 the code keeps: list_keywords_by_website always, the
\* keywords-by-categories tools when keywords_count is the length of the list
C15_TruncationWhenCountIsLength ==
  \A i \in Slots :
    LET c == calls[i] IN
    (/\ Rendered(c) /\ c.name \in TruncatingTools /\ HoldsKeywordLists(c.name, Result(c))
     /\ c.name # "list_keywords_by_website" =>
          \A j \in DOMAIN GetP(Result(c), "categories").a :
            LET cat == GetP(Result(c), "categories").a[j]
            IN GetP(cat, "keywords_count") = JNum(Len(GetP(cat, "keywords").a))) =>
      LET lists == KeywordLists(c.name, Result(c))
          long == { k \in DOMAIN lists : Len(lists[k]) > CapOf(c.name) }
      IN /\ \A k \in long : Truncated(ReportText(c), c.name, lists[k])
         /\ Count(ReportText(c), TruncationMarker) = Cardinality(long)

\* a category whose keywords_count is one less than its list, rendered
C15_Witness ==
  \E i \in Slots :
    LET c == calls[i] IN
    /\ Rendered(c) /\ c.name = "list_keywords_by_categories_by_website"
    /\ HoldsKeywordLists(c.name, Result(c))
    /\ \E j \in DOMAIN GetP(Result(c), "categories").a :
         LET cat == GetP(Result(c), "categories").a[j]
         IN /\ Len(GetP(cat, "keywords").a) > CapOf(c.name)
            /\ GetP(cat, "keywords_count") = JNum(Len(GetP(cat, "keywords").a) - 1)

\* a list_keywords_by_website category longer than its cap, rendered
C15_LongListRendered ==
  \E i \in Slots :
    LET c == calls[i] IN
    /\ Rendered(c) /\ c.name = "list_keywords_by_website"
    /\ HoldsKeywordLists(c.name, Result(c))
    /\ \E k \in DOMAIN KeywordLists(c.name, Result(c)) :
         Len(KeywordLists(c.name, Result(c))[k]) > CapOf(c.name)

\* ---- count and average of positions ----

CategoryTools == { "list_keywords_by_categories_by_website", "get_keywords_by_categories" }

\* the keywords of every category of a keywords-by-categories answer
AllKeywords(result) ==
  LET cs == GetP(result, "categories").a
  IN Flatten([i \in DOMAIN cs |-> GetP(cs[i], "keywords").a])

\* the positions among the keywords of an answer that are numbers above floor
\* (floor -1 keeps every numeric position, floor 0 the positive ones)
PositionsAbove(result, floor) ==
  LET ks == AllKeywords(result)
      positioned == SelectSeq(ks, LAMBDA k : PositionOf(k).t = "number" /\ PositionOf(k).n > floor)
  IN [i \in DOMAIN positioned |-> PositionOf(positioned[i]).n]

RECURSIVE Sum(_)
Sum(ns) == IF ns = <<>> THEN 0 ELSE Head(ns) + Sum(Tail(ns))

\* a number of tenths written with one decimal
Tenths(t) == ToString(t \div 10) \o "." \o ToString(t % 10)

\* the report states the count of the positions and their mean to the nearest
\* tenth; with no position it states the count 0 and no average at all
StatesCountAndMean(text, positions) ==
  LET k == Len(positions)
      sum == Sum(positions)
  IN /\ Contains(text, << "* Avec position GSC : ", ToString(k), NL >>)
     /\ Count(text, "* Avec position GSC : ") = 1
     /\ IF k = 0
          THEN Count(text, "* Position moyenne : #") = 0
          ELSE /\ Count(text, "* Position moyenne : #") = 1
               /\ \E t \in 0..(10 * sum + 1) :
                    /\ Contains(text, << "* Position moyenne : #", Tenths(t), NL >>)
                    /\ 2 * k * t - k <= 20 * sum
                    /\ 20 * sum <= 2 * k * t + k

\* C16: in the keywords-by-categories tools the reported count of keywords with
\* a position is the number k of keywords, over all categories and beyond the
\* display cap, whose performance metrics carry a positive numeric position,
\* and the reported average is the mean of exactly those k positions to one
\* decimal; keywords at position 0 or without performance metrics are left out,
\* and with k = 0 the average line is omitted, never shown as 0 or NaN.
C16_PositionCountAndAverage ==
  \A i \in Slots :
    LET c == calls[i] IN
    (Rendered(c) /\ c.name \in CategoryTools /\ HoldsKeywordLists(c.name, Result(c))) =>
      StatesCountAndMean(ReportText(c), PositionsAbove(Result(c), 0))

\* positions beyond the display cap and keywords without metrics, rendered;
\* and an answer without any position, rendered
C16_Witness ==
  /\ \E i \in Slots :
       LET c == calls[i] IN
       /\ Rendered(c) /\ c.name \in CategoryTools /\ HoldsKeywordLists(c.name, Result(c))
       /\ Len(PositionsAbove(Result(c), 0)) = 2
       /\ Len(AllKeywords(Result(c))) > CategoryCap
       /\ PositionOf(AllKeywords(Result(c))[Len(AllKeywords(Result(c)))]).t = "number"
       /\ Contains(ReportText(c), << "* Position moyenne : #", "7.0", NL >>)

\* C16 as stated, counting every numeric position: the count is the number k
\* of keywords carrying a numeric position, the average the mean of those k
\* values, and with k = 0 no average of 0 or NaN is shown.
C16_NumericPositionCountAndAverage ==
  \A i \in Slots :
    LET c == calls[i] IN
    (Rendered(c) /\ c.name \in CategoryTools /\ HoldsKeywordLists(c.name, Result(c))) =>
      LET positions == PositionsAbove(Result(c), -1)
      IN IF Len(positions) = 0
           THEN /\ ~Contains(ReportText(c), << "* Position moyenne : #", "0.0" >>)
                /\ ~Contains(ReportText(c), << "* Position moyenne : #", "NaN" >>)
           ELSE StatesCountAndMean(ReportText(c), positions)

\* ---- the no-data flag ----

FlaggedTools == CategoryTools \cup { "get_website_performance_summary", "detect_ranking_changes" }

FlagOf(name) == IF name \in CategoryTools THEN "has_gsc_data" ELSE "has_data"

\* the envelope of a call was read and accepted and its data says there is
\* no data
FlaggedNoData(c) ==
  /\ c.pc = "done" /\ c.formatted /\ c.name \in FlaggedTools
  /\ Result(c).t = "object"
  /\ GetP(Result(c), FlagOf(c.name)) = JBool(FALSE)

\* the short report: the no-data notice and the likely cause
ShortNoDataReport(text) ==
  /\ \E notice \in { "**Donnees GSC non disponibles**", "**Aucune donnee disponible**" } :
       Count(text, notice) = 1
  /\ \E cause \in { "**Cause :** Pas de propriete Google Search Console associee.",
                    "**Cause :** Pas de propriete GSC ou donnees non disponibles.",
                    "**Cause possible :** Pas de propriete Google Search Console associee." } :
       Count(text, cause) = 1

\* no per-keyword metrics, position distribution or change list
NoMetricsRendered(text) ==
  \A token \in { "   * **", " | #", " | Pos: #", "* Position moyenne : #",
                 "**Distribution des positions :**", "**Changements detectes :**",
                 "**Aucun changement significatif detecte**" } :
    Count(text, token) = 0

\* the fields the short report of a tool prints are in the answer
ShortReportFields(name, result) ==
  IF name \in CategoryTools
    THEN GetP(result, "summary").t = "object" /\ GetP(result, "categories").t = "array"
  ELSE IF name = "get_website_performance_summary"
    THEN GetP(result, "overall_metrics").t = "object"
  ELSE TRUE

\* C17: for every tool whose data carries a data-availability flag, when the
\* flag is false the call returns the short no-data report that states the
\* likely cause, without the error flag, and renders no per-keyword metrics,
\* position distribution or change list.
C17_NoDataReport ==
  \A i \in Slots :
    LET c == calls[i] IN
    FlaggedNoData(c) =>
      /\ ~c.report.isError
      /\ ShortNoDataReport(ReportText(c))
      /\ NoMetricsRendered(ReportText(c))

\* the part of C17 the code keeps: the short report whenever the answer holds
\* the fields it prints, and never a metric when the flag is false
C17_NoDataReportWhenFieldsPresent ==
  \A i \in Slots :
    LET c == calls[i] IN
    FlaggedNoData(c) =>
      /\ NoMetricsRendered(ReportText(c))
      /\ ShortReportFields(c.name, Result(c)) =>
           ~c.report.isError /\ ShortNoDataReport(ReportText(c))
      /\ ~ShortReportFields(c.name, Result(c)) =>
           c.report.isError /\ c.error.fault = "Formatter"

\* the flag false in an answer without overall_metrics, answered with an error
C17_Witness ==
  \E i \in Slots :
    LET c == calls[i] IN
    /\ FlaggedNoData(c) /\ c.name = "get_website_performance_summary"
    /\ ~ShortReportFields(c.name, Result(c))
    /\ c.report.isError

\* the flag false in a full answer, answered with the short report
C17_ShortReportRendered ==
  \E i \in Slots :
    LET c == calls[i] IN
    /\ FlaggedNoData(c) /\ c.name = "detect_ranking_changes"
    /\ ~c.report.isError /\ ShortNoDataReport(ReportText(c))

\* ---- order of categories and keywords ----

\* the tokens of a text that stand between the two given tokens, in order
Between(text, before, after) ==
  LET at == { i \in 2..(Len(text) - 1) : text[i - 1] = before /\ text[i + 1] = after }
      nth(k) == CHOOSE i \in at : Cardinality({ j \in at : j < i }) = k - 1
  IN [k \in 1..Cardinality(at) |-> text[nth(k)]]

\* the category names of a keyword list in the order of their first occurrence
FirstOccurrenceOrder(ks) ==
  LET cats == { CatNameOf(ks[i]) : i \in DOMAIN ks }
      first(cat) == CHOOSE i \in DOMAIN ks :
                      CatNameOf(ks[i]) = cat /\ \A j \in 1..(i - 1) : CatNameOf(ks[j]) # cat
      nth(k) == CHOOSE cat \in cats :
                  Cardinality({ d \in cats : first(d) < first(cat) }) = k - 1
  IN [k \in 1..Cardinality(cats) |-> nth(k)]

\* the keys of KeywordLists in the backend's order
BackendOrder(name, data) ==
  IF name = "list_keywords_by_website"
    THEN FirstOccurrenceOrder(GetP(data, "keywords").a)
    ELSE [i \in DOMAIN GetP(data, "categories").a |-> i]

\* the header a category is shown under
HeaderOf(v, name, data, key) ==
  IF name = "list_keywords_by_website" THEN key
  ELSE UpperCase(CategoryTitle(v, GetP(data, "categories").a[key]).s)

\* the report shows the categories in the given order, each followed by
\* keywords of its own only, in the order received
GroupedInOrder(text, v, name, data, order) ==
  LET lists == KeywordLists(name, data)
      entries == Following(text, EntryMarker(name))
      own(k) == { lists[k][i] : i \in DOMAIN lists[k] }
      shown(k) == SelectSeq(entries, LAMBDA n : n \in own(k))
  IN /\ Between(text, "**", "** (") = [j \in DOMAIN order |-> HeaderOf(v, name, data, order[j])]
     /\ entries = Flatten([j \in DOMAIN order |-> shown(order[j])])
     /\ \A j \in DOMAIN order :
          shown(order[j]) = SubSeq(lists[order[j]], 1, Len(shown(order[j])))

\* C18: a report that groups keywords by category shows the categories in the
\* backend's order (for list_keywords_by_website the order in which each
\* category first occurs in the received keywords, whatever its name) and the
\* keywords of a category in the order received.
C18_GroupsInBackendOrder ==
  \A i \in Slots :
    LET c == calls[i] IN
    (Rendered(c) /\ c.name \in TruncatingTools /\ HoldsKeywordLists(c.name, Result(c))) =>
      GroupedInOrder(ReportText(c), variant, c.name, Result(c),
                     BackendOrder(c.name, Result(c)))

\* the part of C18 the code keeps: the keywords-by-categories tools always,
\* list_keywords_by_website when no category name is a canonical array index
C18_GroupsInOrderUnlessIndexNames ==
  \A i \in Slots :
    LET c == calls[i] IN
    (/\ Rendered(c) /\ c.name \in TruncatingTools /\ HoldsKeywordLists(c.name, Result(c))
     /\ c.name = "list_keywords_by_website" =>
          \A j \in DOMAIN GetP(Result(c), "keywords").a :
            ~IsIndexKey(CatNameOf(GetP(Result(c), "keywords").a[j]))) =>
      GroupedInOrder(ReportText(c), variant, c.name, Result(c),
                     BackendOrder(c.name, Result(c)))

\* keywords of the categories seo, 10, seo in that order, rendered
C18_Witness ==
  \E i \in Slots :
    LET c == calls[i] IN
    /\ Rendered(c) /\ c.name = "list_keywords_by_website"
    /\ HoldsKeywordLists(c.name, Result(c))
    /\ BackendOrder(c.name, Result(c)) = << "seo", "10" >>
    /\ Between(ReportText(c), "**", "** (") = << "10", "seo" >>

\* interleaved categories whose names are no indices, rendered in order
C18_InterleavedRendered ==
  \E i \in Slots :
    LET c == calls[i] IN
    /\ Rendered(c) /\ c.name = "list_keywords_by_website"
    /\ HoldsKeywordLists(c.name, Result(c))
    /\ BackendOrder(c.name, Result(c)) = << "tech", "seo" >>
    /\ Following(ReportText(c), "   * ") = << "k1", "k3", "k2" >>

\* ---- independence of calls ----

\* the record a call ends with when it runs alone with the name, the
\* arguments and the backend response of c
Alone(c) ==
  LET started == HandleCall(variant, envKey, c.name, c.args) IN
  IF started.pc = "done" THEN started
  ELSE IF c.response = Rejected THEN OnNetworkError(started)
  ELSE LET answered == OnResponse(started, c.response) IN
       IF answered.pc = "done" THEN answered
       ELSE IF c.body = Unparseable THEN OnBodyError(answered)
       ELSE OnBody(variant, answered, c.body)

SameInputs(c, d) ==
  c.name = d.name /\ c.args = d.args /\ c.response = d.response /\ c.body = d.body

C19_BothRendered ==
  \E i, j \in Slots :
    /\ i # j /\ Rendered(calls[i]) /\ Rendered(calls[j])
    /\ calls[i].name # calls[j].name /\ calls[i].report # calls[j].report

\* ---- minimal arguments, documented data ----

\* the call was made with the required fields alone and the backend answered
\* 2xx with success true and the data its tool's formatter reads
MinimalCallAnswered(c) ==
  /\ c.pc = "done"
  /\ c.name \in Names(ListToolsNames(variant))
  /\ c.args = MinimalArgs(variant, c.name)
  /\ c.response.kind = "response" /\ ~NonSuccessStatus(c.response)
  /\ c.body = Envelope(JBool(TRUE), JUndef, DocumentedData(variant, c.name))

\* C20: for every declared tool, a call with only the required fields returns
\* a report with non-empty text and no error flag whenever the backend answers
\* success true with the data that tool's formatter reads.
C20_MinimalCallSucceeds ==
  \A i \in Slots :
    LET c == calls[i] IN
    MinimalCallAnswered(c) =>
      /\ ~c.report.isError
      /\ Len(c.report.content) = 1
      /\ c.report.content[1].type = "text"
      /\ ReportText(c) # <<>>
      /\ \A k \in DOMAIN ReportText(c) : ReportText(c)[k] \in STRING
      /\ \E k \in DOMAIN ReportText(c) : ReportText(c)[k] # ""
      /\ c.error = NoError /\ c.log = <<>>

\* a v1.1.3 tool with two required fields, called minimally and answered
C20_Witness ==
  \E i \in Slots :
    /\ MinimalCallAnswered(calls[i])
    /\ calls[i].name = "analyze_keyword_performance"
    /\ DOMAIN calls[i].args.o = {"keyword", "website_id"}
    /\ Rendered(calls[i])

\* a v2.0.0 tool without required fields, called with {} and answered
C20_EmptyArgumentsAnswered ==
  \E i \in Slots :
    /\ MinimalCallAnswered(calls[i])
    /\ calls[i].name = "list_websites_by_user"
    /\ calls[i].args = EmptyObj
    /\ Rendered(calls[i])

\* ---- the list of websites ----

WebsiteTools == { "list_websites_by_user", "list_user_websites" }

\* the places of a text where a website line starts
WebsiteLineStarts(text) ==
  LET at == { i \in 1..(Len(text) - 4) : text[i] = "* **" /\ text[i + 2] = "** (ID: " }
      nth(k) == CHOOSE i \in at : Cardinality({ j \in at : j < i }) = k - 1
  IN [k \in 1..Cardinality(at) |-> nth(k)]

\* the line starting at a place of the text carries the favorite marker
MarkedFavorite(text, at) == at + 5 <= Len(text) /\ text[at + 5] = " [fav]"

\* C21: list_websites_by_user (list_user_websites in v1.1.3) called with empty
\* arguments renders one line per website of the backend's list, in order,
\* each with that website's domain and id, with the favorite marker on a line
\* if and only if that website's is_favorite is true (truthy: absent, null,
\* false and 0 are not), and shows the backend's websites_count as received,
\* whatever the number of websites listed.
C21_WebsitesListed ==
  \A i \in Slots :
    LET c == calls[i] IN
    (/\ c.pc = "done" /\ c.formatted /\ c.name \in WebsiteTools /\ c.args = EmptyObj
     /\ Result(c).t = "object" /\ ~MapFails(GetP(Result(c), "websites"))) =>
      LET ws == GetP(Result(c), "websites").a
          text == ReportText(c)
          starts == WebsiteLineStarts(text)
      IN /\ ~c.report.isError
         /\ Len(starts) = Len(ws)
         /\ Count(text, "* **") = Len(ws)
         /\ \A k \in DOMAIN ws :
              /\ text[starts[k] + 1] = Str(GetP(ws[k], "domain"))
              /\ text[starts[k] + 3] = Str(GetP(ws[k], "id"))
              /\ text[starts[k] + 4] = ")"
              /\ MarkedFavorite(text, starts[k]) <=> Truthy(GetP(ws[k], "is_favorite"))
         /\ Count(text, " [fav]")
              = Cardinality({ k \in DOMAIN ws : Truthy(GetP(ws[k], "is_favorite")) })
         /\ Contains(text, << "**Nombre de sites :** ",
                              Str(GetP(Result(c), "websites_count")), NL >>)
         /\ Count(text, "**Nombre de sites :** ") = 1

\* the two-site example: both domains listed, site 1 marked favorite, count "2"
C21_Witness ==
  \E i \in Slots :
    LET c == calls[i] IN
    /\ Rendered(c) /\ c.name = "list_websites_by_user" /\ c.args = EmptyObj
    /\ Result(c) = WebsitesData
    /\ Contains(ReportText(c), << "* **", "a.fr", "** (ID: ", "1", ")", " [fav]" >>)
    /\ Contains(ReportText(c), << "* **", "b.fr", "** (ID: ", "2", ")", " - Cree le " >>)
    /\ Contains(ReportText(c), << "**Nombre de sites :** ", "2", NL >>)

\* three websites out of id order, two of them favorite, under a count of 5
C21_ThreeWebsitesListed ==
  \E i \in Slots :
    LET c == calls[i] IN
    /\ Rendered(c) /\ c.name \in WebsiteTools /\ c.args = EmptyObj
    /\ Between(ReportText(c), "* **", "** (ID: ") = << "s3.fr", "s1.fr", "s2.fr" >>
    /\ Count(ReportText(c), " [fav]") = 2
    /\ Contains(ReportText(c), << "**Nombre de sites :** ", "5", NL >>)

\* ---- where the API key goes ----

EncryptedSchemes == { "https://", "wss://" }

\* the URL is one of a host, reached over one of the schemes
UrlAt(url, schemes, host) ==
  \E scheme \in schemes :
    \E k \in DOMAIN EndpointCases(variant) :
      url = scheme \o host \o "/wp-json/easy-links/v1" \o EndpointCases(variant)[k].endpoint

CarriesKey(request) ==
  envKey.t = "string" /\ SeqHas(request.authorization, envKey.s)

HeaderPlaces(text) ==
  LET at == { i \in 2..(Len(text) - 2) : text[i - 1] = "**" /\ text[i + 1] = "** (" }
      nth(k) == CHOOSE i \in at : Cardinality({ j \in at : j < i }) = k - 1
  IN [k \in 1..Cardinality(at) |-> nth(k)]

\* the part of a text from its k-th category header to the next one
CategoryBlockOf(text, k) ==
  LET places == HeaderPlaces(text)
  IN SubSeq(text, places[k],
            IF k < Len(places) THEN places[k + 1] - 1 ELSE Len(text))

\* the keyword list a block renders: the one of the name in its header for
\* list_keywords_by_website, the k-th category's for the other tools
ListOfBlock(name, data, block, k) ==
  KeywordLists(name, data)[IF name = "list_keywords_by_website" THEN block[1] ELSE k]

\* lines plus stated remainder make the count of the header; a list within the
\* cap is shown in full without a truncation line
BlockAddsUp(name, block, list) ==
  LET lines == Following(block, EntryMarker(name))
      truncations == Count(block, TruncationMarker)
  IN /\ truncations <= 1
     /\ \E rest \in 0..(Len(list) + 2) :
          /\ IF truncations = 0 THEN rest = 0
             ELSE Contains(block, << TruncationMarker, ToString(rest) >>)
          /\ block[3] = ToString(Len(lines) + rest)
     /\ Len(list) <= CapOf(name) => (lines = list /\ truncations = 0)

\* C23: in every tool that caps a keyword list, a category of at most cap
\* keywords is rendered in full without a truncation line, and the keyword
\* lines of a category plus the number its truncation line states (0 without
\* one) make the count in the category's header, whatever keywords_count the
\* backend sends along.
C23_BlocksAddUp ==
  \A i \in Slots :
    LET c == calls[i] IN
    (Rendered(c) /\ c.name \in TruncatingTools /\ HoldsKeywordLists(c.name, Result(c))) =>
      LET text == ReportText(c)
      IN /\ Len(HeaderPlaces(text)) = Cardinality(DOMAIN KeywordLists(c.name, Result(c)))
         /\ \A k \in DOMAIN HeaderPlaces(text) :
              BlockAddsUp(c.name, CategoryBlockOf(text, k),
                          ListOfBlock(c.name, Result(c), CategoryBlockOf(text, k), k))

\* the part of C23 the code keeps: list_keywords_by_website always, the
\* keywords-by-categories tools when keywords_count is the length of the list
C23_BlocksAddUpWhenCountIsLength ==
  \A i \in Slots :
    LET c == calls[i] IN
    (/\ Rendered(c) /\ c.name \in TruncatingTools /\ HoldsKeywordLists(c.name, Result(c))
     /\ c.name # "list_keywords_by_website" =>
          \A j \in DOMAIN GetP(Result(c), "categories").a :
            LET cat == GetP(Result(c), "categories").a[j]
            IN GetP(cat, "keywords_count") = JNum(Len(GetP(cat, "keywords").a))) =>
      LET text == ReportText(c)
      IN /\ Len(HeaderPlaces(text)) = Cardinality(DOMAIN KeywordLists(c.name, Result(c)))
         /\ \A k \in DOMAIN HeaderPlaces(text) :
              BlockAddsUp(c.name, CategoryBlockOf(text, k),
                          ListOfBlock(c.name, Result(c), CategoryBlockOf(text, k), k))

\* a category of two keywords under a keywords_count of 5, rendered with two
\* lines, no truncation line and the header count 5
C23_Witness ==
  \E i \in Slots :
    LET c == calls[i] IN
    /\ Rendered(c) /\ c.name \in CategoryTools /\ HoldsKeywordLists(c.name, Result(c))
    /\ Len(HeaderPlaces(ReportText(c))) = 2
    /\ Len(KeywordLists(c.name, Result(c))[1]) = 2
    /\ CategoryBlockOf(ReportText(c), 1)[3] = "5"
    /\ Len(Following(CategoryBlockOf(ReportText(c), 1), EntryMarker(c.name))) = 2
    /\ Count(CategoryBlockOf(ReportText(c), 1), TruncationMarker) = 0

\* ---- the groups of list_keywords_by_website ----

Placeholder == "Non categorise"

\* the group a keyword belongs to: its category name, the placeholder when the
\* name is missing or empty
GroupKey(k) ==
  LET cat == GetP(k, "category_name")
  IN IF Nullish(cat) \/ cat = JStr("") THEN Placeholder ELSE cat.s

\* the call was answered with a list of keywords, each with a keyword and a
\* category name that is a string, empty, null or missing
KeywordsReceived(c) ==
  /\ c.pc = "done" /\ c.formatted /\ c.name = "list_keywords_by_website"
  /\ Result(c).t = "object"
  /\ GetP(Result(c), "keywords").t = "array"
  /\ \A j \in DOMAIN GetP(Result(c), "keywords").a :
       LET k == GetP(Result(c), "keywords").a[j]
       IN k.t = "object" /\ (Nullish(GetP(k, "category_name"))
                              \/ GetP(k, "category_name").t = "string")

\* the report has one block per group key, each headed by the number of
\* keywords of that key and listing keywords of that key only, in order
Partitioned(text, ks) ==
  LET keys == { GroupKey(ks[j]) : j \in DOMAIN ks }
      places == HeaderPlaces(text)
      members(key) == SelectSeq(ks, LAMBDA k : GroupKey(k) = key)
  IN /\ Len(places) = Cardinality(keys)
     /\ { text[places[b]] : b \in DOMAIN places } = keys
     /\ \A b \in DOMAIN places :
          LET block == CategoryBlockOf(text, b)
              group == KeywordNames(members(block[1]))
              lines == Following(block, "   * ")
          IN /\ block[3] = ToString(Len(group))
             /\ lines = SubSeq(group, 1, Len(lines))
             /\ Len(lines) = (IF Len(group) < 20 THEN Len(group) ELSE 20)

\* C24: list_keywords_by_website places every received keyword in exactly one
\* group, keyed by its category_name or by the placeholder when the name is
\* missing or empty; keywords of one name share a group even when they are not
\* adjacent; the counts of the headers sum to the number of keywords received.
C24_KeywordsPartitioned ==
  \A i \in Slots :
    LET c == calls[i] IN
    KeywordsReceived(c) =>
      /\ ~c.report.isError
      /\ Partitioned(ReportText(c), GetP(Result(c), "keywords").a)

\* the part of C24 the code keeps: the partition whenever no category bears a
\* name that Object.prototype defines, and an error report otherwise
C24_PartitionedUnlessPrototypeName ==
  \A i \in Slots :
    LET c == calls[i] IN
    KeywordsReceived(c) =>
      LET ks == GetP(Result(c), "keywords").a
      IN IF \E j \in DOMAIN ks : GroupKey(ks[j]) \in ObjectPrototypeKeys
           THEN c.report.isError /\ c.error.fault = "Formatter"
           ELSE ~c.report.isError /\ Partitioned(ReportText(c), ks)

\* keywords of the categories seo and constructor, answered with an error
C24_Witness ==
  \E i \in Slots :
    LET c == calls[i] IN
    /\ KeywordsReceived(c)
    /\ Len(GetP(Result(c), "keywords").a) = 2
    /\ GroupKey(GetP(Result(c), "keywords").a[2]) = "constructor"
    /\ c.report.isError

\* names that are empty, missing and null share the placeholder's group, and
\* the two keywords of seo, not adjacent, share theirs
C24_PlaceholderGroupRendered ==
  \E i \in Slots :
    LET c == calls[i] IN
    /\ KeywordsReceived(c) /\ ~c.report.isError
    /\ Contains(ReportText(c), << "**", Placeholder, "** (", "3" >>)
    /\ Contains(ReportText(c), << "**", "seo", "** (", "2" >>)
    /\ Following(ReportText(c), "   * ") = << "k1", "k3", "k5", "k2", "k6", "k4" >>

\* ---- the lines of detect_ranking_changes ----

\* the parts of a sequence of tokens between its line breaks
SplitLines(tokens) ==
  LET breaks == { i \in DOMAIN tokens : tokens[i] = NL }
      nth(k) == IF k = 0 THEN 0
                ELSE IF k > Cardinality(breaks) THEN Len(tokens) + 1
                ELSE CHOOSE i \in breaks : Cardinality({ j \in breaks : j < i }) = k - 1
  IN [k \in 1..(Cardinality(breaks) + 1) |-> SubSeq(tokens, nth(k - 1) + 1, nth(k) - 1)]

\* the lines under the heading of the detected changes; none without heading
ChangeLines(text) ==
  LET at == { i \in DOMAIN text : text[i] = "**Changements detectes :**" }
  IN IF at = {} THEN <<>>
     ELSE SplitLines(SubSeq(text, (CHOOSE i \in at : TRUE) + 2, Len(text)))

MajorMarker == " **[CHANGEMENT MAJEUR]**"

NoChangeLine == "**Aucun changement significatif detecte**"

\* detect_ranking_changes was answered with data and a list of changes
ChangesReceived(c) ==
  /\ Rendered(c) /\ c.name = "detect_ranking_changes"
  /\ Result(c).t = "object"
  /\ Truthy(GetP(Result(c), "has_data"))
  /\ ~MapFails(GetP(Result(c), "significant_changes"))

\* one line per change, in order, naming its keyword, marked major exactly when
\* the change is; the no-change line exactly when there is no change
ChangesListed(text, changes) ==
  LET lines == ChangeLines(text)
  IN /\ Len(lines) = Len(changes)
     /\ \A j \in DOMAIN changes :
          /\ SeqHas(lines[j], Str(GetP(changes[j], "keyword")))
          /\ SeqHas(lines[j], MajorMarker) <=> GetP(changes[j], "significance") = JStr("major")
     /\ Count(text, NoChangeLine) = (IF changes = <<>> THEN 1 ELSE 0)

KnownChangeTypes == { "improvement", "drop", "new_entry", "disappeared" }

\* C25: detect_ranking_changes with has_data true renders one line per entry
\* of significant_changes, in received order, each naming the entry's keyword,
\* whatever its change_type; the major-change marker is on a line if and only
\* if the entry's significance is 'major'; the no-significant-change line
\* appears if and only if significant_changes is empty.
C25_ChangesListed ==
  \A i \in Slots :
    LET c == calls[i] IN
    ChangesReceived(c) =>
      ChangesListed(ReportText(c), GetP(Result(c), "significant_changes").a)

\* the part of C25 the code keeps: the same for the four change types the
\* code names
C25_KnownChangesListed ==
  \A i \in Slots :
    LET c == calls[i] IN
    (/\ ChangesReceived(c)
     /\ \A j \in DOMAIN GetP(Result(c), "significant_changes").a :
          Str(GetP(GetP(Result(c), "significant_changes").a[j], "change_type"))
            \in KnownChangeTypes) =>
      ChangesListed(ReportText(c), GetP(Result(c), "significant_changes").a)

\* a single change of a type the code does not name, answered with the
\* no-significant-change line
C25_Witness ==
  \E i \in Slots :
    LET c == calls[i] IN
    /\ ChangesReceived(c)
    /\ Len(GetP(Result(c), "significant_changes").a) = 1
    /\ GetP(GetP(Result(c), "significant_changes").a[1], "change_type") = JStr("stable")
    /\ Count(ReportText(c), NoChangeLine) = 1

\* four changes of the four known types, listed in order
C25_FourChangesListed ==
  \E i \in Slots :
    LET c == calls[i] IN
    /\ ChangesReceived(c)
    /\ Len(ChangeLines(ReportText(c))) = 4
    /\ SeqHas(ChangeLines(ReportText(c))[1], "c1")
    /\ SeqHas(ChangeLines(ReportText(c))[2], MajorMarker)
    /\ SeqHas(ChangeLines(ReportText(c))[4], "c4")

=============================================================================
